---- MODULE Spec2Model ----
(***************************************************************************)
(* Reversible constant-modulus arithmetic circuits (Beauregard, HRS and    *)
(* Montgomery families): construction of the gate sequences and their      *)
(* action on basis states.                                                 *)
(*                                                                         *)
(* A circuit is a record [n, g, err]: n wires (numbered 1..n, the source   *)
(* numbers them 0..n-1), g the ordered gate sequence, err the kind of      *)
(* exception construction ended with ("" when it returned).  A gate is a   *)
(* record [k, q, a]: kind, wires (controls first, target last) and angle.  *)
(*                                                                         *)
(* Angles are exact multiples of pi / 2^AngleBits, kept modulo 2 pi.       *)
(* A cell is 0 or 1 (computational basis), Junk (no product-state          *)
(* description), or 2 + t for the equatorial state |0> + e^{i t u}|1>      *)
(* with u = pi / 2^AngleBits: the Fourier representation of v on a         *)
(* register puts the angle pi * v / 2^k on its k-th cell.                  *)
(***************************************************************************)
EXTENDS Integers, Sequences, FiniteSets, TLC

VARIABLES op, dom, phase, circ, marks, cells0, cells, pos

vars == <<op, dom, phase, circ, marks, cells0, cells, pos>>

(* ------------------------------ bounds -------------------------------- *)
MaxWidth == 3

MaxN == 8

AngleBits == 2 * (MaxWidth + 2) + 2

FullTurn == 2 ^ (AngleBits + 1)

HalfTurn == 2 ^ AngleBits

(* ------------------------- classical helpers -------------------------- *)
RECURSIVE gcd(_, _)
gcd(x, y) == IF y = 0 THEN x ELSE gcd(y, x % y)

Min(x, y) == IF x <= y THEN x ELSE y

Range(s) == {s[i] : i \in DOMAIN s}

ceil_log2(N) == CHOOSE k \in 0..31 : 2 ^ k >= N /\ (k = 0 \/ 2 ^ (k - 1) < N)

\* pow(a, -1, N) that returns 0 where Python raises
mod_inverse_never_raises(a, N) ==
    IF \E z \in 0..(N - 1) : (a * z) % N = 1 % N
    THEN CHOOSE z \in 0..(N - 1) : (a * z) % N = 1 % N
    ELSE 0

\* pow(a, -1, N): the inverse of a modulo N, or -1 where Python raises
mod_inverse(a, N) ==
    IF \E z \in 0..(N - 1) : (a * z) % N = 1 % N
    THEN CHOOSE z \in 0..(N - 1) : (a * z) % N = 1 % N
    ELSE -1

\* a ** (2 ** i) % N, squared i times with the reduction applied each time
RECURSIVE pow_2i_mod(_, _, _)
pow_2i_mod(a, i, N) ==
    IF i = 0 THEN a % N
    ELSE LET r == pow_2i_mod(a, i - 1, N) IN (r * r) % N

\* a ** x % N
RECURSIVE pow_mod(_, _, _)
pow_mod(a, x, N) == IF x = 0 THEN 1 % N ELSE (a * pow_mod(a, x - 1, N)) % N

\* numpy.binary_repr(v, w) read lsb first: bit k (0-based) of v, in two's
\* complement on w bits for a negative v
bin_rev_bit(v, w, k) == (((v % (2 ^ w)) \div (2 ^ k)) % 2)

bin_rev(v, w) == [k \in 1..w |-> bin_rev_bit(v, w, k - 1)]

(* ------------------------------- cells -------------------------------- *)
Junk == 0 - 1

IsC(c) == c = 0 \/ c = 1

IsF(c) == c >= 2

F(t) == 2 + (t % FullTurn)

Ang(c) == c - 2

Bits(v, w) == [k \in 1..w |-> (v \div (2 ^ (k - 1))) % 2]

RECURSIVE Val(_)
Val(s) == IF Len(s) = 0 THEN 0 ELSE s[1] + 2 * Val(Tail(s))

AllC(s) == \A i \in DOMAIN s : IsC(s[i])

\* the Fourier representation of v on a w-cell register
Phi(v, w) == [k \in 1..w |-> F((v % (2 ^ k)) * 2 ^ (AngleBits - (k - 1)))]

Pick(s, qs) == [j \in DOMAIN qs |-> s[qs[j]]]

Poison(s, qs) == [i \in DOMAIN s |-> IF i \in Range(qs) THEN Junk ELSE s[i]]

(* ------------------------------- gates -------------------------------- *)
Gate(k, q, a) == [k |-> k, q |-> q, a |-> a]

\* x, cx, ccx, mct: flip the last wire when every other wire holds 1
ApplyFlip(g, s) ==
    LET w == Len(g.q)
        t == g.q[w]
    IN  IF \E j \in 1..(w - 1) : ~IsC(s[g.q[j]]) THEN Poison(s, g.q)
        ELSE IF \A j \in 1..(w - 1) : s[g.q[j]] = 1
             THEN [s EXCEPT ![t] = IF IsC(@) THEN 1 - @ ELSE F(0 - Ang(@))]
             ELSE s

ApplyCswap(g, s) ==
    IF ~IsC(s[g.q[1]]) THEN Poison(s, g.q)
    ELSE IF s[g.q[1]] = 1
         THEN [s EXCEPT ![g.q[2]] = s[g.q[3]], ![g.q[3]] = s[g.q[2]]]
         ELSE s

ApplyP(g, s) ==
    [s EXCEPT ![g.q[1]] = IF IsF(@) THEN F(Ang(@) + g.a) ELSE @]

ApplyCp(g, s) ==
    LET c == g.q[1]
        t == g.q[2]
    IN  IF IsC(s[c])
        THEN IF s[c] = 1 /\ IsF(s[t]) THEN [s EXCEPT ![t] = F(Ang(@) + g.a)] ELSE s
        ELSE IF IsC(s[t])
             THEN IF s[t] = 1 THEN [s EXCEPT ![c] = F(Ang(@) + g.a)] ELSE s
             ELSE IF g.a % FullTurn = 0 THEN s ELSE Poison(s, g.q)

ApplyH(g, s) ==
    [s EXCEPT ![g.q[1]] =
        IF IsC(@) THEN F(@ * HalfTurn)
        ELSE IF Ang(@) = 0 THEN 0
        ELSE IF Ang(@) = HalfTurn THEN 1
        ELSE Junk]

\* QFT(n, do_swaps=False) on a basis state
ApplyQft(g, s) ==
    IF \E j \in DOMAIN g.q : ~IsC(s[g.q[j]]) THEN Poison(s, g.q)
    ELSE LET v == Val(Pick(s, g.q))
             ph == Phi(v, Len(g.q))
         IN  [i \in DOMAIN s |->
                 IF \E j \in DOMAIN g.q : g.q[j] = i
                 THEN ph[CHOOSE j \in DOMAIN g.q : g.q[j] = i]
                 ELSE s[i]]

\* the value whose Fourier representation the cells r hold, or -1
FourierVal(r) ==
    LET w == Len(r)
        part(k) == Ang(r[k]) \div (2 ^ (AngleBits - (k - 1)))
    IN  IF /\ \A k \in 1..w : IsF(r[k]) /\ Ang(r[k]) % (2 ^ (AngleBits - (k - 1))) = 0
           /\ \A k \in 2..w : part(k) % (2 ^ (k - 1)) = part(k - 1)
        THEN IF w = 0 THEN 0 ELSE part(w)
        ELSE -1

ApplyIqft(g, s) ==
    LET v == FourierVal(Pick(s, g.q))
    IN  IF v < 0 THEN Poison(s, g.q)
        ELSE LET b == Bits(v, Len(g.q))
             IN  [i \in DOMAIN s |->
                     IF \E j \in DOMAIN g.q : g.q[j] = i
                     THEN b[CHOOSE j \in DOMAIN g.q : g.q[j] = i]
                     ELSE s[i]]

ApplyGate(g, s) ==
    IF g.k = "barrier" THEN s
    ELSE IF \E j \in DOMAIN g.q : s[g.q[j]] = Junk THEN Poison(s, g.q)
    ELSE CASE g.k \in {"x", "cx", "ccx", "mct"} -> ApplyFlip(g, s)
           [] g.k = "cswap" -> ApplyCswap(g, s)
           [] g.k = "p" -> ApplyP(g, s)
           [] g.k = "cp" -> ApplyCp(g, s)
           [] g.k = "h" -> ApplyH(g, s)
           [] g.k = "qft" -> ApplyQft(g, s)
           [] g.k = "iqft" -> ApplyIqft(g, s)

\* gates lo..hi of gs, in order
RECURSIVE RunGates(_, _, _, _)
RunGates(gs, lo, hi, s) ==
    IF lo > hi THEN s
    ELSE IF lo = hi THEN ApplyGate(gs[lo], s)
    ELSE LET mid == (lo + hi) \div 2
             left == RunGates(gs, lo, mid, s)
         IN  IF Len(left) = 0 THEN left ELSE RunGates(gs, mid + 1, hi, left)

(* ------------------------------ circuits ------------------------------ *)
NoErr == ""

\* a fragment is what one statement of a constructor contributes: the gates
\* it appends, or the exception it raises
OkFrag(gs) == [g |-> gs, err |-> NoErr]

ErrFrag(kind) == [g |-> <<>>, err |-> kind]

Nothing == OkFrag(<<>>)

Distinct(qs) == \A i, j \in DOMAIN qs : i # j => qs[i] # qs[j]

\* circuit.x / cx / ccx / mct / cswap / p / cp / h on a circuit of n wires
GateOn(n, k, qs, a) ==
    IF ~Distinct(qs) \/ \E j \in DOMAIN qs : qs[j] \notin 1..n
    THEN ErrFrag("CircuitError")
    ELSE OkFrag(<<Gate(k, qs, a)>>)

Remap(gs, qs) == [i \in DOMAIN gs |-> [gs[i] EXCEPT !.q = [j \in DOMAIN @ |-> qs[@[j]]]]]

\* circuit.append(sub, qs) on a circuit of n wires: the gates of sub, in
\* order, on the wires qs
AppendOn(n, sub, qs) ==
    IF sub.err # NoErr THEN ErrFrag(sub.err)
    ELSE IF \/ Len(qs) # sub.n
            \/ ~Distinct(qs)
            \/ \E j \in DOMAIN qs : qs[j] \notin 1..n
         THEN ErrFrag("CircuitError")
         ELSE OkFrag(Remap(sub.g, qs))

RECURSIVE Flatten(_, _, _)
Flatten(parts, lo, hi) ==
    IF lo > hi THEN <<>>
    ELSE IF lo = hi THEN parts[lo].g
    ELSE LET mid == (lo + hi) \div 2
         IN  Flatten(parts, lo, mid) \o Flatten(parts, mid + 1, hi)

\* statements executed in order: everything up to the first exception
JoinSeq(ps) ==
    LET bad == {i \in DOMAIN ps : ps[i].err # NoErr}
        last == IF bad = {} THEN Len(ps)
                ELSE CHOOSE i \in bad : \A j \in bad : i <= j
    IN  [g |-> Flatten(ps, 1, last),
         err |-> IF bad = {} THEN NoErr ELSE ps[last].err]

Join(parts) == JoinSeq(parts \o <<>>)

RECURSIVE GatesUpTo(_, _)
GatesUpTo(ps, i) == IF i = 0 THEN 0 ELSE Len(ps[i].g) + GatesUpTo(ps, i - 1)

MkCircuitSeq(n, ps) ==
    LET j == JoinSeq(ps)
        done == IF j.err = NoErr THEN Len(ps)
                ELSE (CHOOSE i \in DOMAIN ps :
                         /\ ps[i].err # NoErr
                         /\ \A k \in 1..(i - 1) : ps[k].err = NoErr) - 1
    IN  [n |-> n, g |-> j.g, err |-> j.err,
         m |-> [i \in 1..done |-> GatesUpTo(ps, i)]]

\* QuantumCircuit(registers of n cells in all) followed by the statements;
\* m[i] is the number of gates once the i-th statement has completed
MkCircuit(n, parts) ==
    IF n < 0 THEN [n |-> 0, g |-> <<>>, err |-> "CircuitError", m |-> <<>>]
    ELSE MkCircuitSeq(n, parts \o <<>>)

InvGate(g) ==
    IF g.k \in {"p", "cp"} THEN [g EXCEPT !.a = 0 - @]
    ELSE IF g.k = "qft" THEN [g EXCEPT !.k = "iqft"]
    ELSE IF g.k = "iqft" THEN [g EXCEPT !.k = "qft"]
    ELSE g

\* each gate inverted with the order of the gates kept
inverse_same_order(c) == [c EXCEPT !.g = [i \in DOMAIN @ |-> InvGate(@[i])]]

\* circuit.inverse(): the gate sequence reversed, each gate inverted
inverse(c) ==
    [c EXCEPT !.g = [i \in DOMAIN @ |-> InvGate(@[Len(@) + 1 - i])],
              !.m = [i \in DOMAIN @ |->
                        Len(c.g) - (IF i = Len(@) THEN 0 ELSE @[Len(@) - i])]]

Wires(lo, hi) == [j \in 1..(hi - lo + 1) |-> lo + j - 1]

Slice(s, lo, hi) == IF lo > Min(hi, Len(s)) THEN <<>> ELSE SubSeq(s, lo, Min(hi, Len(s)))

(* ------------------------------- calls -------------------------------- *)
\* Call(f, args) is the call f(*args) of the factory named f; the factories
\* construct their sub-circuits through it
RECURSIVE Call(_, _)

(* --------------------------- HRS: carry gate --------------------------- *)
\* the body shared by carry_gate (nc = 0), c_carry_gate (nc = 1) and
\* cc_carry_gate (nc = 2): nc controls, n cells a, n-2 cells g; cb is the
\* constant, lsb first.  greg is [areg[0]] + greg_actual.
carry_body(nc, n, cb) ==
    IF n < 2 THEN MkCircuit(-1, <<>>)
    ELSE LET nq == nc + n + (n - 2)
             areg(i) == nc + 1 + i
             greg(i) == IF i = 0 THEN areg(0) ELSE nc + n + i
             X(i) == GateOn(nq, "x", <<areg(i)>>, 0)
             CX(i) == GateOn(nq, "cx", <<areg(i), greg(i)>>, 0)
             CCX(i) == GateOn(nq, "ccx", <<greg(i - 1), areg(i), greg(i)>>, 0)
             c_bin(i) == IF i + 1 \in DOMAIN cb THEN cb[i + 1] ELSE -1
             Idx(i, frag) == IF c_bin(i) = -1 THEN ErrFrag("IndexError") ELSE frag
             \* the flip of the output cell by the last carry
             toggle == GateOn(nq, IF nc = 0 THEN "cx" ELSE IF nc = 1 THEN "ccx" ELSE "mct",
                              Wires(1, nc) \o <<greg(n - 2), areg(n - 1)>>, 0)
             \* the x-gate on the output cell for the msb of the constant
             msb == GateOn(nq, IF nc = 0 THEN "x" ELSE IF nc = 1 THEN "cx" ELSE "ccx",
                           Wires(1, nc) \o <<areg(n - 1)>>, 0)
             forward(i) ==
                 IF i = 1 /\ c_bin(0) = 0
                 THEN IF c_bin(i) = 1 THEN Join(<<CX(i), X(i)>>) ELSE Idx(i, Nothing)
                 ELSE IF c_bin(i) = 1 THEN Join(<<CX(i), X(i), CCX(i)>>) ELSE Idx(i, CCX(i))
             again(i) == IF i - 1 = 0 THEN Nothing ELSE CCX(i)
             backward(i) ==
                 IF i = 1 /\ c_bin(0) = 0
                 THEN IF c_bin(i) = 1 THEN Join(<<X(i), CX(i)>>) ELSE Idx(i, Nothing)
                 ELSE IF c_bin(i) = 1 THEN Join(<<CCX(i), X(i), CX(i)>>) ELSE Idx(i, CCX(i))
         IN  MkCircuit(nq, <<
                 toggle,
                 Join([j \in 1..(n - 2) |-> forward(n - 1 - j)]),
                 Join([j \in 1..(n - 2) |-> again(j)]),
                 toggle,
                 IF c_bin(n - 1) = 1 THEN msb ELSE Idx(n - 1, Nothing),
                 Join([j \in 1..(n - 2) |-> again(n - 1 - j)]),
                 Join([j \in 1..(n - 2) |-> backward(j)]) >>)

carry_gate(n, cb) == carry_body(0, n, cb)

c_carry_gate(n, cb) == carry_body(1, n, cb)

cc_carry_gate(n, cb) == carry_body(2, n, cb)

(* --------------------------- HRS: incrementer -------------------------- *)
\* |a, b> -> |a, a + b>
adder_ttk(n, alternating_reg, handle_overflow) ==
    LET nq == n + (IF handle_overflow THEN n + 1 ELSE n)
        areg(i) == IF alternating_reg THEN 2 * i + 2 ELSE i + 1
        breg(i) == IF alternating_reg
                   THEN (IF i = n THEN 2 * n + 1 ELSE 2 * i + 1)
                   ELSE n + i + 1
        cx(c, t) == GateOn(nq, "cx", <<c, t>>, 0)
        ccx(c1, c2, t) == GateOn(nq, "ccx", <<c1, c2, t>>, 0)
    IN  IF n < 0 THEN MkCircuit(-1, <<>>)
        ELSE MkCircuit(nq, <<
                 Join([i \in 1..(n - 1) |-> cx(areg(i), breg(i))]),
                 IF handle_overflow THEN cx(areg(n - 1), breg(n)) ELSE Nothing,
                 Join([j \in 1..(n - 2) |-> cx(areg(n - 1 - j), areg(n - j))]),
                 Join([j \in 1..(n - 1) |-> ccx(breg(j - 1), areg(j - 1), areg(j))]),
                 IF handle_overflow THEN ccx(breg(n - 1), areg(n - 1), breg(n)) ELSE Nothing,
                 Join([j \in 1..(n - 1) |->
                         Join(<<cx(areg(n - j), breg(n - j)),
                                ccx(breg(n - j - 1), areg(n - j - 1), areg(n - j))>>)]),
                 Join([i \in 1..(n - 2) |-> cx(areg(i), areg(i + 1))]),
                 Join([j \in 1..n |-> cx(areg(j - 1), breg(j - 1))]) >>)

\* the incrementer without the closing x on the control
cinc_control_not_restored(n) ==
    IF n < 0 THEN MkCircuit(-1, <<>>)
    ELSE LET nq == 2 * n + 2
             breg == Wires(n + 2, 2 * n + 2)
             subtractor == inverse(Call("adder_ttk", <<n + 1, FALSE, FALSE>>))
             x_breg == Join([j \in 1..Len(breg) |-> GateOn(nq, "x", <<breg[j]>>, 0)])
         IN  MkCircuit(nq, <<
                 AppendOn(nq, subtractor, breg \o Wires(1, n + 1)),
                 x_breg,
                 AppendOn(nq, subtractor, breg \o Wires(1, n + 1)),
                 x_breg >>)

\* increment of x under one control, on n + 1 borrowed cells
cinc(n) ==
    IF n < 0 THEN MkCircuit(-1, <<>>)
    ELSE LET nq == 2 * n + 2
             ctrl == 1
             xreg == Wires(2, n + 1)
             breg == Wires(n + 2, 2 * n + 2)
             subtractor == inverse(Call("adder_ttk", <<n + 1, FALSE, FALSE>>))
             logical_xreg == <<ctrl>> \o xreg
             x_breg == Join([j \in 1..Len(breg) |-> GateOn(nq, "x", <<breg[j]>>, 0)])
         IN  MkCircuit(nq, <<
                 AppendOn(nq, subtractor, breg \o logical_xreg),
                 x_breg,
                 AppendOn(nq, subtractor, breg \o logical_xreg),
                 x_breg,
                 GateOn(nq, "x", <<ctrl>>, 0) >>)

(* ----------------------- HRS: divide and conquer ----------------------- *)
\* the split of c_divide_and_conquer_adder with the low half rounded down
SplitWidths_low_floor(n) == <<n \div 2, n - n \div 2>>

\* <<nlow, nhigh>>: the widths of the two recursive calls made for width n
SplitWidths(n) == <<(n + 1) \div 2, n - (n + 1) \div 2>>

\* the widths of all the calls below the call for width n (widths 1 and 2
\* are the base cases, which call nothing)
RECURSIVE CallWidths(_)
CallWidths(n) ==
    IF n <= 2 THEN {}
    ELSE {SplitWidths(n)[1], SplitWidths(n)[2]}
             \cup CallWidths(SplitWidths(n)[1]) \cup CallWidths(SplitWidths(n)[2])

\* the number of nested recursive calls below the call for width n
RECURSIVE RecursionDepth(_)
RecursionDepth(n) ==
    IF n <= 2 THEN 0
    ELSE 1 + (IF RecursionDepth(SplitWidths(n)[1]) >= RecursionDepth(SplitWidths(n)[2])
              THEN RecursionDepth(SplitWidths(n)[1]) ELSE RecursionDepth(SplitWidths(n)[2]))

\* the statements c_divide_and_conquer_adder appends to the circuit `adder`
\* of nq wires
RECURSIVE c_divide_and_conquer_adder(_, _, _, _, _, _, _)
c_divide_and_conquer_adder(nq, n, xreg, o_borrowed, c_bin_rev, control_reg, borrowed_extra) ==
    LET cx(t) == GateOn(nq, "cx", <<control_reg, t>>, 0)
    IN  IF n = 2
        THEN Join(<<
                 IF c_bin_rev[1] = 1
                 THEN GateOn(nq, "ccx", <<control_reg, xreg[1], xreg[2]>>, 0) ELSE Nothing,
                 IF c_bin_rev[1] = 1 THEN cx(xreg[1]) ELSE Nothing,
                 IF c_bin_rev[2] = 1 THEN cx(xreg[2]) ELSE Nothing >>)
        ELSE IF n = 1
        THEN IF c_bin_rev[1] = 1 THEN cx(xreg[1]) ELSE Nothing
        ELSE LET nlow == SplitWidths(n)[1]
                 nhigh == SplitWidths(n)[2]
                 xlow == Slice(xreg, 1, nlow)
                 xhigh == Slice(xreg, nlow + 1, Len(xreg))
                 num_borrowed_needed == nhigh + 1
                 borrowed_for_incrementer ==
                     IF num_borrowed_needed > Len(xlow)
                     THEN Append(xlow, borrowed_extra) ELSE xlow
                 inc == AppendOn(nq, Call("cinc", <<nhigh>>),
                                 <<o_borrowed>> \o xhigh \o borrowed_for_incrementer)
                 flip_high == Join([j \in 1..Len(xhigh) |->
                                      GateOn(nq, "cx", <<o_borrowed, xhigh[j]>>, 0)])
                 num_borrowed == nlow - 1
                 carry == AppendOn(nq, Call("c_carry_gate", <<nlow + 1, Slice(c_bin_rev, 1, nlow) \o <<0>>>>),
                                   <<control_reg>> \o xlow \o <<o_borrowed>>
                                       \o Slice(xreg, nlow + 1, nlow + num_borrowed))
             IN  Join(<<
                     inc, flip_high, carry, inc, carry, flip_high,
                     c_divide_and_conquer_adder(nq, nlow, xlow, o_borrowed,
                         Slice(c_bin_rev, 1, nlow), control_reg, borrowed_extra),
                     c_divide_and_conquer_adder(nq, nhigh, Slice(xreg, nlow + 1, nlow + nhigh),
                         o_borrowed, Slice(c_bin_rev, nlow + 1, nlow + nhigh),
                         control_reg, borrowed_extra) >>)

\* the adder built from the binary digits of |c|, the sign left out
c_adder_hrs2_magnitude(n, c) ==
    IF n < 0 THEN MkCircuit(-1, <<>>)
    ELSE LET c_bin_rev == [k \in 1..n |-> bin_rev_bit(IF c < 0 THEN 0 - c ELSE c, n + 1, k - 1)]
         IN  MkCircuit(n + 3, <<
                 c_divide_and_conquer_adder(n + 3, n, Wires(2, n + 1), n + 2, c_bin_rev,
                                            1, n + 3) >>)

\* controlled addition of the constant c: 1 control, n cells x, 2 borrowed
c_adder_hrs2(n, c) ==
    IF n < 0 THEN MkCircuit(-1, <<>>)
    ELSE LET control == 1
             xreg == Wires(2, n + 1)
             o_borrowed == <<n + 2, n + 3>>
             c_bin_rev == [k \in 1..n |-> bin_rev_bit(c, n + 1, k - 1)]
         IN  MkCircuit(n + 3, <<
                 c_divide_and_conquer_adder(n + 3, n, xreg, o_borrowed[1], c_bin_rev,
                                            control, o_borrowed[2]) >>)

(* ------------------------- HRS: modular adder -------------------------- *)
\* the result cell and the borrowed cells handed to the carry gate in the
\* order of the registers instead of result first
comp_body_register_order(nc, n, value) ==
    IF n < 1 THEN MkCircuit(-1, <<>>)
    ELSE LET nq == nc + 2 * n
             c_bin_rev == bin_rev(0 - value, n + 1)
         IN  MkCircuit(nq, <<
                 AppendOn(nq, Call("carry_body", <<nc, n + 1, c_bin_rev>>), Wires(1, nq)) >>)

\* c_comp (nc = 1) and cc_comp (nc = 2): nc controls, n input, n-1 borrowed,
\* 1 result
comp_body(nc, n, value) ==
    IF n < 1 THEN MkCircuit(-1, <<>>)
    ELSE LET nq == nc + 2 * n
             control == Wires(1, nc)
             inreg == Wires(nc + 1, nc + n)
             breg == Wires(nc + n + 1, nc + 2 * n - 1)
             res == <<nc + 2 * n>>
             valuesub == 0 - value
             c_bin_rev == bin_rev(valuesub, n + 1)
         IN  MkCircuit(nq, <<
                 AppendOn(nq, Call("carry_body", <<nc, n + 1, c_bin_rev>>),
                          control \o inreg \o res \o breg) >>)

c_comp(n, value) == comp_body(1, n, value)

cc_comp(n, value) == comp_body(2, n, value)

\* the statements of c_carry_add_mod_hrs / cc_carry_add_mod_hrs, with the
\* flip of msb between the two additions and the last comparison given
add_mod_statements(nc, n, a, N, flip, last) ==
    IF n < 1 THEN MkCircuit(-1, <<>>)
    ELSE LET nq == nc + 2 * n
             control == Wires(1, nc)
             breg == Wires(nc + 1, nc + n)
             greg == Wires(nc + n + 1, nc + 2 * n - 1)
             msbreg == <<nc + 2 * n>>
             all == control \o breg \o greg \o msbreg
             adder(c) ==
                 IF Len(greg) < 2 THEN ErrFrag("IndexError")
                 ELSE AppendOn(nq, Call("c_adder_hrs2", <<n, c>>), msbreg \o breg \o <<greg[1], greg[2]>>)
         IN  MkCircuit(nq, <<
                 AppendOn(nq, Call("comp_body", <<nc, n, N - a>>), all),
                 adder(a),
                 IF flip = "x" THEN GateOn(nq, "x", msbreg, 0)
                 ELSE GateOn(nq, IF nc = 1 THEN "cx" ELSE "ccx", control \o msbreg, 0),
                 adder(a - N),
                 IF last THEN AppendOn(nq, Call("comp_body", <<nc, n, a>>), all) ELSE Nothing >>)

\* msb flipped whatever the controls hold
add_mod_body_flip_always(nc, n, a, N) == add_mod_statements(nc, n, a, N, "x", TRUE)

\* the comparison that resets msb left out
add_mod_body_no_reset(nc, n, a, N) == add_mod_statements(nc, n, a, N, "cx", FALSE)

\* the inner adder borrowing greg[0] and the first control instead of
\* greg[0] and greg[1]
add_mod_body_borrow_control(nc, n, a, N) ==
    IF n < 1 THEN MkCircuit(-1, <<>>)
    ELSE LET nq == nc + 2 * n
             control == Wires(1, nc)
             breg == Wires(nc + 1, nc + n)
             greg == Wires(nc + n + 1, nc + 2 * n - 1)
             msbreg == <<nc + 2 * n>>
             all == control \o breg \o greg \o msbreg
             adder(c) ==
                 IF Len(greg) < 1 THEN ErrFrag("IndexError")
                 ELSE AppendOn(nq, Call("c_adder_hrs2", <<n, c>>), msbreg \o breg \o <<greg[1], control[1]>>)
         IN  MkCircuit(nq, <<
                 AppendOn(nq, Call("comp_body", <<nc, n, N - a>>), all),
                 adder(a),
                 GateOn(nq, IF nc = 1 THEN "cx" ELSE "ccx", control \o msbreg, 0),
                 adder(a - N),
                 AppendOn(nq, Call("comp_body", <<nc, n, a>>), all) >>)

\* c_carry_add_mod_hrs (nc = 1) and cc_carry_add_mod_hrs (nc = 2):
\* nc controls, n cells b, n-1 borrowed cells g, 1 ancilla msb
add_mod_body(nc, n, a, N) ==
    IF n < 1 THEN MkCircuit(-1, <<>>)
    ELSE LET nq == nc + 2 * n
             control == Wires(1, nc)
             breg == Wires(nc + 1, nc + n)
             greg == Wires(nc + n + 1, nc + 2 * n - 1)
             msbreg == <<nc + 2 * n>>
             all == control \o breg \o greg \o msbreg
             adder(c) ==
                 IF Len(greg) < 2 THEN ErrFrag("IndexError")
                 ELSE AppendOn(nq, Call("c_adder_hrs2", <<n, c>>), msbreg \o breg \o <<greg[1], greg[2]>>)
         IN  MkCircuit(nq, <<
                 AppendOn(nq, Call("comp_body", <<nc, n, N - a>>), all),
                 adder(a),
                 GateOn(nq, IF nc = 1 THEN "cx" ELSE "ccx", control \o msbreg, 0),
                 adder(a - N),
                 AppendOn(nq, Call("comp_body", <<nc, n, a>>), all) >>)

c_carry_add_mod_hrs(n, a, N) == add_mod_body(1, n, a, N)

cc_carry_add_mod_hrs(n, a, N) == add_mod_body(2, n, a, N)

(* -------------------- HRS: multiplier and tower ------------------------ *)
Without(s, j) == [k \in 1..(Len(s) - 1) |-> IF k < j THEN s[k] ELSE s[k + 1]]

\* the multiplier adding a mod N at every step, the factor 2 ** i left out
c_mult_hrs_partial_no_shift(n, a, N) ==
    IF n < 0 THEN MkCircuit(-1, <<>>)
    ELSE LET nq == 2 * n + 2
         IN  MkCircuit(nq,
                 [j \in 1..n |->
                     AppendOn(nq, Call("cc_carry_add_mod_hrs", <<n, a % N, N>>),
                              <<1, 1 + j>> \o Wires(n + 2, 2 * n + 1)
                                  \o Without(Wires(2, n + 1), j) \o <<2 * n + 2>>)])

\* |c, x, 0, 0> -> |c, x, ax mod N, 0>; one statement for each iteration of
\* the loop
c_mult_hrs_partial(n, a, N) ==
    IF n < 0 THEN MkCircuit(-1, <<>>)
    ELSE LET nq == 2 * n + 2
             control == <<1>>
             topreg == Wires(2, n + 1)
             botreg == Wires(n + 2, 2 * n + 1)
             ancreg == <<2 * n + 2>>
             borrowed_qubits(i) == Without(topreg, i + 1)
         IN  MkCircuit(nq,
                 [j \in 1..n |->
                     AppendOn(nq, Call("cc_carry_add_mod_hrs", <<n, (a * (2 ^ (j - 1))) % N, N>>),
                              <<control[1], topreg[j]>> \o botreg
                                  \o borrowed_qubits(j - 1) \o ancreg)])

\* |c, x, 0, 0> -> |c, ax mod N, 0, 0>
c_mult_hrs(n, a, N) ==
    IF n < 0 THEN MkCircuit(-1, <<>>)
    ELSE LET nq == 2 * n + 2
             control == <<1>>
             topreg == Wires(2, n + 1)
             botreg == Wires(n + 2, 2 * n + 1)
             ainv == mod_inverse(a, N)
         IN  MkCircuit(nq, <<
                 AppendOn(nq, Call("c_mult_hrs_partial", <<n, a, N>>), Wires(1, nq)),
                 Join([j \in 1..n |->
                     GateOn(nq, "cswap", <<control[1], topreg[j], botreg[j]>>, 0)]),
                 IF ainv < 0 THEN ErrFrag("ValueError")
                 ELSE AppendOn(nq, Call("c_mult_hrs_partial", <<n, N - ainv, N>>), Wires(1, nq)) >>)

\* the exponent written a ** (2 * i) instead of a ** (2 ** i)
mod_exp_hrs_step_linear(ntop, nbot, a, N, i) ==
    AppendOn(ntop + 2 * nbot + 1, Call("c_mult_hrs", <<nbot, pow_mod(a, 2 * i, N), N>>),
             <<i + 1>> \o Wires(ntop + 1, ntop + 2 * nbot + 1))

\* the multipliers controlled by the exponent cells from the top down
mod_exp_hrs_step_reversed(ntop, nbot, a, N, i) ==
    AppendOn(ntop + 2 * nbot + 1, Call("c_mult_hrs", <<nbot, pow_2i_mod(a, i, N), N>>),
             <<ntop - i>> \o Wires(ntop + 1, ntop + 2 * nbot + 1))

\* the control and the lowest accumulator cell exchanged: top[i] is data
mod_exp_hrs_step_control_as_data(ntop, nbot, a, N, i) ==
    AppendOn(ntop + 2 * nbot + 1, Call("c_mult_hrs", <<nbot, pow_2i_mod(a, i, N), N>>),
             <<ntop + 1, i + 1>> \o Wires(ntop + 2, ntop + 2 * nbot + 1))

\* iteration i of the loop of mod_exp_hrs: top[i] is the control bit
mod_exp_hrs_step(ntop, nbot, a, N, i) ==
    AppendOn(ntop + 2 * nbot + 1, Call("c_mult_hrs", <<nbot, pow_2i_mod(a, i, N), N>>),
             <<i + 1>> \o Wires(ntop + 1, ntop + 2 * nbot + 1))

\* |x>|y>|0...0> -> |x>|y * a^x mod N>|0...0>
mod_exp_hrs(ntop, nbot, a, N) ==
    MkCircuit(ntop + 2 * nbot + 1,
              [j \in 1..ntop |-> mod_exp_hrs_step(ntop, nbot, a, N, j - 1)])

(* ------------------------ Fourier adder family ------------------------- *)
\* b * pi / 2^k, in units of pi / 2^AngleBits
get_angle(k, b) == b * 2 ^ (AngleBits - k)

\* QFT(n, do_swaps=False) of the circuit library, as one gate
QFT(n) == MkCircuit(n, <<GateOn(n, "qft", Wires(1, n), 0)>>)

\* the three rotations all by +theta/2
ccp_same_sign(theta) ==
    MkCircuit(3, <<
        GateOn(3, "cp", <<2, 3>>, theta \div 2),
        GateOn(3, "cx", <<1, 2>>, 0),
        GateOn(3, "cp", <<2, 3>>, theta \div 2),
        GateOn(3, "cx", <<1, 2>>, 0),
        GateOn(3, "cp", <<1, 3>>, theta \div 2) >>)

\* doubly controlled phase from singly controlled phases: ctrl = wires 1, 2; q = 3
ccp(theta) ==
    MkCircuit(3, <<
        GateOn(3, "cp", <<2, 3>>, theta \div 2),
        GateOn(3, "cx", <<1, 2>>, 0),
        GateOn(3, "cp", <<2, 3>>, (0 - theta) \div 2),
        GateOn(3, "cx", <<1, 2>>, 0),
        GateOn(3, "cp", <<1, 3>>, theta \div 2) >>)

\* the rotations controlled by the second control alone
phi_addition_cc_one_control(n, b, factor) ==
    MkCircuit(n + 2,
        [j \in 1..n |-> GateOn(n + 2, "cp", <<2, 2 + j>>, factor * get_angle(j - 1, b))])

\* |phi(x)> -> |phi(x + factor*b)> under two controls
phi_addition_cc(n, b, factor) ==
    IF n < 0 THEN MkCircuit(-1, <<>>)
    ELSE MkCircuit(n + 2,
             [j \in 1..n |->
                 AppendOn(n + 2, Call("ccp", <<factor * get_angle(j - 1, b)>>), <<1, 2, 2 + j>>)])

\* |phi(x)> -> |phi(x + factor*b)> under one control, without the
\* operations on the cells below ignorebits
phi_addition_controlled_ignorebits(n, b, factor, ignorebits) ==
    LET nq == 1 + (n - ignorebits)
    IN  IF n - ignorebits < 0 THEN MkCircuit(-1, <<>>)
        ELSE MkCircuit(nq,
                 [j \in 1..n |->
                     IF j - 1 < ignorebits THEN Nothing
                     ELSE GateOn(nq, "cp", <<1, 1 + (j - 1 - ignorebits) + 1>>,
                                 factor * get_angle(j - 1, b))])

phi_addition_controlled(n, b, factor) == phi_addition_controlled_ignorebits(n, b, factor, 0)

\* the adder with the sign of the rotation dropped: it adds b whatever the factor
phi_add_builtin_no_factor(n, b, factor) ==
    MkCircuit(n, [j \in 1..n |-> GateOn(n, "p", <<j>>, get_angle(j - 1, b))])

\* |phi(x)> -> |phi(x + factor*b)>: one rotation per cell
phi_add_builtin(n, b, factor) ==
    MkCircuit(n, [j \in 1..n |-> GateOn(n, "p", <<j>>, factor * get_angle(j - 1, b))])

\* |x> -> |x + factor*b>
add_draper(n, b, factor) ==
    MkCircuit(n, <<
        AppendOn(n, Call("QFT", <<n>>), Wires(1, n)),
        AppendOn(n, Call("phi_add_builtin", <<n, b, factor>>), Wires(1, n)),
        AppendOn(n, inverse(Call("QFT", <<n>>)), Wires(1, n)) >>)

(* -------------------------- Beauregard backend ------------------------- *)
\* the statements shared by phi_add_mod_N (nc = 0) and phi_add_mod_N_cc
\* (nc = 2): nc controls, n cells |phi(a)>, 1 ancilla
phi_add_mod_body(nc, n, y, N) ==
    LET nq == nc + n + 1
        ctrl == Wires(1, nc)
        reg == Wires(nc + 1, nc + n)
        aux == <<nc + n + 1>>
        iqft == inverse(Call("QFT", <<n>>))
        qft == Call("QFT", <<n>>)
        msb == IF n >= 1 THEN reg[n] ELSE 0
        add_y(factor) ==
            IF nc = 0 THEN AppendOn(nq, Call("phi_add_builtin", <<n, y, factor>>), reg)
            ELSE AppendOn(nq, Call("phi_addition_cc", <<n, y, factor>>), ctrl \o reg)
    IN  IF n < 0 THEN MkCircuit(-1, <<>>)
        ELSE MkCircuit(nq, <<
                 add_y(1),
                 AppendOn(nq, Call("phi_add_builtin", <<n, N, -1>>), reg),
                 AppendOn(nq, iqft, reg),
                 GateOn(nq, "cx", <<msb, aux[1]>>, 0),
                 AppendOn(nq, qft, reg),
                 AppendOn(nq, Call("phi_addition_controlled", <<n, N, 1>>), <<aux[1]>> \o reg),
                 add_y(-1),
                 AppendOn(nq, iqft, reg),
                 GateOn(nq, "x", <<msb>>, 0),
                 GateOn(nq, "cx", <<msb, aux[1]>>, 0),
                 GateOn(nq, "x", <<msb>>, 0),
                 AppendOn(nq, qft, reg),
                 add_y(1) >>)

phi_add_mod_N_cc(n, y, N) == phi_add_mod_body(2, n, y, N)

phi_add_mod_N(n, y, N) == phi_add_mod_body(0, n, y, N)

\* the multiplier from plain doubly controlled additions, never reduced
\* modulo N
mult_mod_N_partial_c_no_reduction(y, N, size_x, size_b) ==
    LET nq == 1 + size_x + size_b + 1
        reg_b == Wires(size_x + 2, size_x + size_b + 1)
    IN  IF size_x < 0 \/ size_b < 0 THEN MkCircuit(-1, <<>>)
        ELSE MkCircuit(nq,
                 <<AppendOn(nq, Call("QFT", <<size_b>>), reg_b)>>
                 \o [j \in 1..size_x |->
                        AppendOn(nq, Call("phi_addition_cc", <<size_b, ((2 ^ (j - 1)) * y) % N, 1>>),
                                 <<1, 1 + j>> \o reg_b)]
                 \o <<AppendOn(nq, inverse(Call("QFT", <<size_b>>)), reg_b)>>)

\* |c, x, b, 0> -> |c, x, b + y*x mod N, 0>
mult_mod_N_partial_c(y, N, size_x, size_b) ==
    LET nq == 1 + size_x + size_b + 1
        control == <<1>>
        reg_x == Wires(2, size_x + 1)
        reg_b == Wires(size_x + 2, size_x + size_b + 1)
        reg_anc == <<size_x + size_b + 2>>
    IN  IF size_x < 0 \/ size_b < 0 THEN MkCircuit(-1, <<>>)
        ELSE MkCircuit(nq,
                 <<AppendOn(nq, Call("QFT", <<size_b>>), reg_b)>>
                 \o [j \in 1..size_x |->
                        AppendOn(nq, Call("phi_add_mod_N_cc", <<size_b, ((2 ^ (j - 1)) * y) % N, N>>),
                                 <<control[1], reg_x[j]>> \o reg_b \o <<reg_anc[1]>>)]
                 \o <<AppendOn(nq, inverse(Call("QFT", <<size_b>>)), reg_b)>>)

\* size_requested=None
None == 0 - 1

\* |c, x, 0> -> |c, ax mod N, 0>; the width is size_requested, or
\* ceil(ld(N)) when that is None
mult_mod_N_c(a, N, size_requested) ==
    LET size == IF size_requested = None THEN ceil_log2(N) ELSE size_requested
        size_x == size
        size_b == size + 1
        nq == 1 + size_x + size_b + 1
        control == <<1>>
        reg_x == Wires(2, size_x + 1)
        reg_b == Wires(size_x + 2, size_x + size_b + 1)
        inv_a == mod_inverse(a, N)
    IN  IF size < 0 THEN MkCircuit(-1, <<>>)
        ELSE MkCircuit(nq,
                 <<AppendOn(nq, Call("mult_mod_N_partial_c", <<a, N, size_x, size_b>>), Wires(1, nq))>>
                 \o [j \in 1..size_x |->
                        GateOn(nq, "cswap", <<control[1], reg_x[j], reg_b[j]>>, 0)]
                 \o << IF inv_a < 0 THEN ErrFrag("ValueError")
                       ELSE AppendOn(nq, inverse(Call("mult_mod_N_partial_c", <<inv_a, N, size_x, size_b>>)),
                                     Wires(1, nq)) >>)

\* the multiplier built for a instead of a ** (2 ** i)
mod_exp_brg_step_no_square(n, a, N, i) ==
    LET size_input == 2 * ceil_log2(N) + 3
    IN  AppendOn(n + size_input - 1, Call("mult_mod_N_c", <<a % N, N, None>>),
                 <<i + 1>> \o Wires(n + 1, n + size_input - 1))

\* iteration i of the loop of mod_exp_brg
mod_exp_brg_step(n, a, N, i) ==
    LET size_input == 2 * ceil_log2(N) + 3
    IN  AppendOn(n + size_input - 1, Call("mult_mod_N_c", <<pow_2i_mod(a, i, N), N, None>>),
                 <<i + 1>> \o Wires(n + 1, n + size_input - 1))

\* |x>|y>|0...0> -> |x>|y * a^x mod N>|0...0>
mod_exp_brg(n, a, N) ==
    LET size_input == 2 * ceil_log2(N) + 3
    IN  MkCircuit(n + size_input - 1, [j \in 1..n |-> mod_exp_brg_step(n, a, N, j - 1)])

\* the multiplier without the subtractions that clear the helper cells
mult_montgomery_partial_c_no_uncompute(n, classical_y_montg, p) ==
    LET nq == 1 + n + (n + n + 1)
        ctrl == <<1>>
        smallreg == Wires(2, n + 1)
        bigreg == Wires(n + 2, 3 * n + 2)
        signbit == Slice(bigreg, 2 * n + 1, 2 * n + 1)
        result == Slice(bigreg, n + 1, 2 * n)
        uncom_qubits == Slice(bigreg, 1, n) \o signbit
        pinvbig == mod_inverse(p, 2 ^ (n + 1))
        summand(i) == ((2 ^ i) * classical_y_montg) % p
        reduce(i) ==
            Join(<< GateOn(nq, "h", <<bigreg[i + 1]>>, 0),
                    AppendOn(nq, Call("phi_addition_controlled_ignorebits", <<n + n + 1 - i, p, -1, 1>>),
                             <<bigreg[i + 1]>> \o Slice(bigreg, i + 2, 2 * n + 1)) >>)
    IN  IF n < 0 THEN MkCircuit(-1, <<>>)
        ELSE MkCircuit(nq,
                 <<AppendOn(nq, Call("QFT", <<n + n + 1>>), bigreg)>>
                 \o [j \in 1..n |->
                        AppendOn(nq, Call("phi_addition_cc", <<n + n + 1, summand(j - 1), 1>>),
                                 <<ctrl[1], smallreg[j]>> \o bigreg)]
                 \o [j \in 1..n |-> reduce(j - 1)]
                 \o << GateOn(nq, "barrier", Wires(1, nq), 0),
                       AppendOn(nq, inverse(Call("QFT", <<n + 1>>)), Slice(bigreg, n + 1, 2 * n + 1)),
                       AppendOn(nq, Call("QFT", <<n>>), result),
                       AppendOn(nq, Call("phi_addition_controlled", <<n, p, 1>>), signbit \o result),
                       GateOn(nq, "h", <<bigreg[n + 1]>>, 0),
                       GateOn(nq, "cx", <<bigreg[n + 1], signbit[1]>>, 0),
                       GateOn(nq, "h", <<bigreg[n + 1]>>, 0),
                       AppendOn(nq, Call("QFT", <<n + 1>>), uncom_qubits),
                       IF pinvbig < 0 THEN ErrFrag("ValueError") ELSE Nothing >>
                 \o << AppendOn(nq, inverse(Call("QFT", <<n>>)), result),
                       AppendOn(nq, inverse(Call("QFT", <<n + 1>>)), uncom_qubits) >>)

(* -------------------------- Montgomery backend ------------------------- *)
\* |c, x, 0...0> -> |c, x, 0, xy mod p, 0...0>, y given in Montgomery form
mult_montgomery_partial_c(n, classical_y_montg, p) ==
    LET nq == 1 + n + (n + n + 1)
        ctrl == <<1>>
        smallreg == Wires(2, n + 1)
        bigreg == Wires(n + 2, 3 * n + 2)
        signbit == Slice(bigreg, 2 * n + 1, 2 * n + 1)
        result == Slice(bigreg, n + 1, 2 * n)
        uncom_qubits == Slice(bigreg, 1, n) \o signbit
        pinvbig == mod_inverse(p, 2 ^ (n + 1))
        summand(i) == ((2 ^ i) * classical_y_montg) % p
        reduce(i) ==
            Join(<< GateOn(nq, "h", <<bigreg[i + 1]>>, 0),
                    AppendOn(nq, Call("phi_addition_controlled_ignorebits", <<n + n + 1 - i, p, -1, 1>>),
                             <<bigreg[i + 1]>> \o Slice(bigreg, i + 2, 2 * n + 1)) >>)
        uncompute(i) ==
            AppendOn(nq, Call("phi_addition_cc", <<n + 1, (summand(i) * pinvbig) % (2 ^ (n + 1)), -1>>),
                     <<ctrl[1], smallreg[i + 1]>> \o uncom_qubits)
    IN  IF n < 0 THEN MkCircuit(-1, <<>>)
        ELSE MkCircuit(nq,
                 <<AppendOn(nq, Call("QFT", <<n + n + 1>>), bigreg)>>
                 \o [j \in 1..n |->
                        AppendOn(nq, Call("phi_addition_cc", <<n + n + 1, summand(j - 1), 1>>),
                                 <<ctrl[1], smallreg[j]>> \o bigreg)]
                 \o [j \in 1..n |-> reduce(j - 1)]
                 \o << GateOn(nq, "barrier", Wires(1, nq), 0),
                       AppendOn(nq, inverse(Call("QFT", <<n + 1>>)), Slice(bigreg, n + 1, 2 * n + 1)),
                       AppendOn(nq, Call("QFT", <<n>>), result),
                       AppendOn(nq, Call("phi_addition_controlled", <<n, p, 1>>), signbit \o result),
                       GateOn(nq, "h", <<bigreg[n + 1]>>, 0),
                       GateOn(nq, "cx", <<bigreg[n + 1], signbit[1]>>, 0),
                       GateOn(nq, "h", <<bigreg[n + 1]>>, 0),
                       AppendOn(nq, Call("QFT", <<n + 1>>), uncom_qubits),
                       IF pinvbig < 0 THEN ErrFrag("ValueError") ELSE Nothing >>
                 \o [j \in 1..n |-> uncompute(j - 1)]
                 \o << AppendOn(nq, inverse(Call("QFT", <<n>>)), result),
                       AppendOn(nq, inverse(Call("QFT", <<n + 1>>)), uncom_qubits) >>)

\* |c, x, 0...0> -> |c, xy mod p, 0...0>
mult_montgomery_c(n, y, p) ==
    LET nq == 1 + n + (n + n + 1)
        ctrl == <<1>>
        smallreg == Wires(2, n + 1)
        bigreg == Wires(n + 2, 3 * n + 2)
        R == 2 ^ n
        classical_y_montg == (y * R) % p
        inverse_y == mod_inverse(y, p)
        inverse_y_montg == (inverse_y * R) % p
    IN  IF n < 0 THEN MkCircuit(-1, <<>>)
        ELSE MkCircuit(nq,
                 <<AppendOn(nq, Call("mult_montgomery_partial_c", <<n, classical_y_montg, p>>), Wires(1, nq))>>
                 \o [j \in 1..n |->
                        GateOn(nq, "cswap", <<ctrl[1], smallreg[j], bigreg[n + j]>>, 0)]
                 \o << IF inverse_y < 0 THEN ErrFrag("ValueError")
                       ELSE AppendOn(nq, inverse(Call("mult_montgomery_partial_c", <<n, inverse_y_montg, p>>)),
                                     Wires(1, nq)) >>)

\* every multiplier controlled by top[0] instead of top[i]
mod_exp_montgomery_step_first_ctrl(n, a, p, i) ==
    AppendOn(n + 3 * n + 1, Call("mult_montgomery_c", <<n, pow_2i_mod(a, i, p), p>>),
             <<1>> \o Wires(n + 1, 4 * n + 1))

\* iteration i of the loop of mod_exp_montgomery
mod_exp_montgomery_step(n, a, p, i) ==
    AppendOn(n + 3 * n + 1, Call("mult_montgomery_c", <<n, pow_2i_mod(a, i, p), p>>),
             <<i + 1>> \o Wires(n + 1, 4 * n + 1))

\* |x>|y>|0...0> -> |x>|y * a^x mod N>|0...0>
mod_exp_montgomery(n, a, p) ==
    MkCircuit(n + 3 * n + 1, [j \in 1..n |-> mod_exp_montgomery_step(n, a, p, j - 1)])

(* ------------------------- towers side by side ------------------------- *)
\* the registers of the three towers laid out one after the other on one
\* circuit, each tower appended on its own exponent, accumulator and scratch
TowerWidth(f, n, N) ==
    CASE f = "mod_exp_brg" -> n + 2 * ceil_log2(N) + 2
      [] f = "mod_exp_hrs" -> n + 2 * n + 1
      [] f = "mod_exp_montgomery" -> n + 3 * n + 1

towers_side_by_side(n, a, N) ==
    LET wb == TowerWidth("mod_exp_brg", n, N)
        wh == TowerWidth("mod_exp_hrs", n, N)
        wm == TowerWidth("mod_exp_montgomery", n, N)
        nq == wb + wh + wm
    IN  MkCircuit(nq, <<
            AppendOn(nq, Call("mod_exp_brg", <<n, a, N>>), Wires(1, wb)),
            AppendOn(nq, Call("mod_exp_hrs", <<n, n, a, N>>), Wires(wb + 1, wb + wh)),
            AppendOn(nq, Call("mod_exp_montgomery", <<n, a, N>>), Wires(wb + wh + 1, nq)) >>)

(* --------------------- the operation under test ------------------------ *)
\* op = [f, n, a, N]: the factory called and its arguments (n the width, a
\* the classical constant, N the modulus; a field a factory does not take is 0)
Towers == {"mod_exp_hrs", "mod_exp_brg", "mod_exp_montgomery"}

Op(f, n, a, N) == [f |-> f, n |-> n, a |-> a, N |-> N]

Call(f, args) ==
    CASE f = "carry_body" -> carry_body(args[1], args[2], args[3])
      [] f = "carry_gate" -> carry_gate(args[1], args[2])
      [] f = "c_carry_gate" -> c_carry_gate(args[1], args[2])
      [] f = "cc_carry_gate" -> cc_carry_gate(args[1], args[2])
      [] f = "adder_ttk" -> adder_ttk(args[1], args[2], args[3])
      [] f = "cinc" -> cinc(args[1])
      [] f = "c_adder_hrs2" -> c_adder_hrs2(args[1], args[2])
      [] f = "comp_body" -> comp_body(args[1], args[2], args[3])
      [] f = "c_comp" -> c_comp(args[1], args[2])
      [] f = "cc_comp" -> cc_comp(args[1], args[2])
      [] f = "c_carry_add_mod_hrs" -> c_carry_add_mod_hrs(args[1], args[2], args[3])
      [] f = "cc_carry_add_mod_hrs" -> cc_carry_add_mod_hrs(args[1], args[2], args[3])
      [] f = "c_mult_hrs_partial" -> c_mult_hrs_partial(args[1], args[2], args[3])
      [] f = "c_mult_hrs" -> c_mult_hrs(args[1], args[2], args[3])
      [] f = "mod_exp_hrs" -> mod_exp_hrs(args[1], args[2], args[3], args[4])
      [] f = "QFT" -> QFT(args[1])
      [] f = "ccp" -> ccp(args[1])
      [] f = "phi_addition_cc" -> phi_addition_cc(args[1], args[2], args[3])
      [] f = "phi_addition_controlled_ignorebits" ->
             phi_addition_controlled_ignorebits(args[1], args[2], args[3], args[4])
      [] f = "phi_addition_controlled" -> phi_addition_controlled(args[1], args[2], args[3])
      [] f = "phi_add_builtin" -> phi_add_builtin(args[1], args[2], args[3])
      [] f = "phi_add_mod_N" -> phi_add_mod_N(args[1], args[2], args[3])
      [] f = "phi_add_mod_N_cc" -> phi_add_mod_N_cc(args[1], args[2], args[3])
      [] f = "mult_mod_N_partial_c" ->
             mult_mod_N_partial_c(args[1], args[2], args[3], args[4])
      [] f = "mult_mod_N_c" -> mult_mod_N_c(args[1], args[2], args[3])
      [] f = "mod_exp_brg" -> mod_exp_brg(args[1], args[2], args[3])
      [] f = "mult_montgomery_partial_c" ->
             mult_montgomery_partial_c(args[1], args[2], args[3])
      [] f = "mult_montgomery_c" -> mult_montgomery_c(args[1], args[2], args[3])
      [] f = "mod_exp_montgomery" -> mod_exp_montgomery(args[1], args[2], args[3])
      [] f = "towers_side_by_side" -> towers_side_by_side(args[1], args[2], args[3])

\* the arguments of the call op stands for
OpArgs(o) ==
    CASE o.f = "mod_exp_hrs" -> <<o.n, o.n, o.a, o.N>>
      [] o.f \in {"carry_gate", "c_carry_gate", "cc_carry_gate"} -> <<o.n, Bits(o.a, o.n)>>
      [] o.f \in {"c_adder_hrs2", "c_comp", "cc_comp"} -> <<o.n, o.a>>
      [] o.f = "cinc" -> <<o.n>>
      [] o.f = "ccp" -> <<o.a>>
      [] o.f = "mult_mod_N_c" -> <<o.a, o.N, o.n>>
      [] o.f = "mult_mod_N_partial_c" -> <<o.a, o.N, o.n, o.n + 1>>
      [] o.f = "adder_ttk" -> <<o.n, FALSE, o.N = 1>>
      [] o.f = "phi_addition_controlled_ignorebits" -> <<o.n, o.a, -1, o.N>>
      [] OTHER -> <<o.n, o.a, o.N>>

\* c followed by c.inverse() on the same cells; op = [f |-> "round_trip",
\* a |-> the operation inverted]
round_trip(c) ==
    MkCircuit(c.n, <<
        AppendOn(c.n, c, Wires(1, c.n)),
        AppendOn(c.n, inverse(c), Wires(1, c.n)) >>)

\* the operation whose cells a call works on
Inner(o) == IF o.f = "round_trip" THEN o.a ELSE o

BuildOp(o) ==
    IF o.f = "round_trip" THEN round_trip(Call(o.a.f, OpArgs(o.a)))
    ELSE Call(o.f, OpArgs(o))

\* the number of leading control cells of the operation (for a tower: the
\* exponent register)
NumCtrl(o) ==
    IF o.f \in Towers THEN o.n
    ELSE IF o.f \in {"cc_carry_add_mod_hrs", "cc_comp", "cc_carry_gate", "phi_add_mod_N_cc",
                     "phi_addition_cc", "ccp"} THEN 2
    ELSE IF o.f \in {"phi_add_mod_N", "phi_add_builtin", "carry_gate", "adder_ttk"} THEN 0
    ELSE 1

\* the adders in Fourier space: controls, then the register |phi(x)>; the
\* field N of op is the factor, for phi_addition_controlled_ignorebits it is
\* ignorebits (and the factor is -1)
FourierAdders ==
    {"phi_add_builtin", "phi_addition_controlled", "phi_addition_cc",
     "phi_addition_controlled_ignorebits"}

\* the in-place multipliers: 1 control, the register x, scratch
Multipliers == {"mult_mod_N_c", "c_mult_hrs", "mult_montgomery_c"}

\* the out-of-place multipliers, on the same cells
PartialMultipliers == {"mult_mod_N_partial_c", "c_mult_hrs_partial", "mult_montgomery_partial_c"}

\* the width of the register x of a multiplier (op.n = None: size_requested
\* not given)
MultWidth(o) == IF o.f = "mult_mod_N_c" /\ o.n = None THEN ceil_log2(o.N) ELSE o.n

\* the width of the accumulator of a tower
AccWidth(o) == IF o.f = "mod_exp_brg" THEN ceil_log2(o.N) ELSE o.n

AllCells(w) == {Bits(v, w) : v \in 0..(2 ^ w - 1)}

Zeros(w) == [k \in 1..w |-> 0]

\* a tower started on exponent x, accumulator y and its scratch at 0
TowerInput(f, n, N, x, y) ==
    LET w == IF f = "mod_exp_brg" THEN ceil_log2(N) ELSE n
    IN  Bits(x, n) \o Bits(y, w) \o Zeros(TowerWidth(f, n, N) - n - w)

\* the basis states an operation of nq wires is started on, by domain:
\*   "contract" - what the docstring of the factory declares: data in range,
\*                ancilla 0, any control setting, any borrowed content;
\*   "any"      - every content of the data cells, ancilla 0;
\*   "gated"    - controls not all 1 (a tower: exponent 0), any content elsewhere;
\*   "one"      - a tower on exponent 2^n - 1 and accumulator 1.
InputsFor(o, d, nq) ==
    IF o.f = "towers_side_by_side"
    THEN {TowerInput("mod_exp_brg", o.n, o.N, x, 1)
              \o TowerInput("mod_exp_hrs", o.n, o.N, x, 1)
              \o TowerInput("mod_exp_montgomery", o.n, o.N, x, 1) :
             x \in 0..(2 ^ o.n - 1)}
    ELSE IF d = "one"
    THEN {TowerInput(o.f, o.n, o.N, 2 ^ o.n - 1, 1)}
    ELSE IF d = "gated"
    THEN IF o.f \in Towers
         THEN {Zeros(o.n) \o r : r \in AllCells(nq - o.n)}
         ELSE {s \in AllCells(nq) : \E j \in 1..NumCtrl(o) : s[j] = 0}
    ELSE IF o.f \in Towers
    THEN {Bits(x, o.n) \o Bits(y, AccWidth(o)) \o Zeros(nq - o.n - AccWidth(o)) :
             x \in 0..(2 ^ o.n - 1), y \in 0..(o.N - 1)}
    ELSE IF o.f \in FourierAdders \cup {"ccp"}
    THEN {c \o Phi(v, nq - NumCtrl(o)) :
             c \in AllCells(NumCtrl(o)), v \in 0..(2 ^ (nq - NumCtrl(o)) - 1)}
    ELSE IF o.f \in Multipliers \cup PartialMultipliers
    THEN {<<c>> \o Bits(x, MultWidth(o)) \o Zeros(nq - 1 - MultWidth(o)) :
             c \in 0..1,
             x \in 0..((IF d = "contract" THEN Min(o.N, 2 ^ MultWidth(o))
                                          ELSE 2 ^ MultWidth(o)) - 1)}
    ELSE IF o.f \in {"phi_add_mod_N", "phi_add_mod_N_cc"}
    THEN {c \o Phi(v, o.n) \o <<0>> :
             c \in AllCells(NumCtrl(o)),
             v \in 0..((IF d = "contract" THEN o.N ELSE 2 ^ o.n) - 1)}
    ELSE IF o.f \in {"c_carry_add_mod_hrs", "cc_carry_add_mod_hrs"}
    THEN {c \o Bits(b, o.n) \o g \o <<0>> :
             c \in AllCells(NumCtrl(o)),
             b \in 0..((IF d = "contract" THEN o.N ELSE 2 ^ o.n) - 1),
             g \in AllCells(o.n - 1)}
    ELSE AllCells(nq)

\* "all": every content of every cell
Inputs(o, d, nq) == IF d = "all" THEN AllCells(nq) ELSE InputsFor(Inner(o), d, nq)

(* --------------------------- the state machine ------------------------- *)
\* phase: "build" (the factory is appending statements), "error" (it
\* raised), "ready" (it returned circ), "run" (circ is being applied to
\* cells, one top-level statement at a time), "done"
EmptyCircuit == [n |-> 0, g |-> <<>>, err |-> NoErr, m |-> <<>>]

InitWith(ops, d) ==
    /\ op \in ops
    /\ dom = d
    /\ phase = "build"
    /\ circ = EmptyCircuit
    /\ marks = <<>>
    /\ cells0 = <<>>
    /\ cells = <<>>
    /\ pos = 0

\* the factory executes its next top-level statement
AppendStmt ==
    /\ phase = "build"
    /\ \E c \in {BuildOp(op)} :
         LET k == Len(marks) + 1
         IN  /\ k <= Len(c.m)
             /\ circ' = [n |-> c.n, err |-> NoErr, g |-> SubSeq(c.g, 1, c.m[k]),
                         m |-> SubSeq(c.m, 1, k)]
             /\ marks' = Append(marks, c.m[k])
    /\ UNCHANGED <<op, dom, phase, cells0, cells, pos>>

\* the factory returns the circuit, or the statement it is at raises
Finish ==
    /\ phase = "build"
    /\ \E c \in {BuildOp(op)} :
         /\ Len(marks) = Len(c.m)
         /\ circ' = c
         /\ phase' = IF c.err = NoErr THEN "ready" ELSE "error"
    /\ UNCHANGED <<op, dom, marks, cells0, cells, pos>>

\* the caller prepares a basis state
Prepare ==
    /\ phase = "ready"
    /\ \E s \in Inputs(op, dom, circ.n) :
         /\ cells0' = s
         /\ cells' = s
    /\ pos' = 0
    /\ phase' = "run"
    /\ UNCHANGED <<op, dom, circ, marks>>

\* the gates of the next top-level statement are applied, in order
Execute ==
    /\ phase = "run"
    /\ pos < Len(marks)
    /\ cells' = RunGates(circ.g, (IF pos = 0 THEN 0 ELSE marks[pos]) + 1, marks[pos + 1], cells)
    /\ pos' = pos + 1
    /\ phase' = IF pos + 1 = Len(marks) THEN "done" ELSE "run"
    /\ UNCHANGED <<op, dom, circ, marks, cells0>>

Next == AppendStmt \/ Finish \/ Prepare \/ Execute

(* ------------------------------ the towers ----------------------------- *)
Coprime(a, N) == gcd(a, N) = 1

HrsTowerOps ==
    {Op("mod_exp_hrs", n, a, N) : n \in 3..MaxWidth, a \in 1..MaxN, N \in 2..MaxN}

OpsC1 == {o \in HrsTowerOps : o.N < 2 ^ o.n /\ o.a < o.N /\ Coprime(o.a, o.N)}

InitC1 == InitWith(OpsC1, "contract")

SpecC1 == InitC1 /\ [][Next]_vars

Exponent(s) == Val(SubSeq(s, 1, op.n))

Accumulator(s) == Val(SubSeq(s, op.n + 1, op.n + AccWidth(op)))

Scratch(s) == SubSeq(s, op.n + AccWidth(op) + 1, Len(s))

\* what a tower must leave: |x>|y * a^x mod N>|0...0>
TowerResult ==
    /\ AllC(cells)
    /\ Exponent(cells) = Exponent(cells0)
    /\ Accumulator(cells) = (Accumulator(cells0) * pow_mod(op.a, Exponent(cells0), op.N)) % op.N
    /\ Scratch(cells) = Zeros(Len(Scratch(cells)))

\* C1: mod_exp_hrs(n, n, a, N), n >= 3, N < 2^n, a coprime to N, started on
\* exponent x, accumulator y < N and n+1 scratch cells at 0, ends with
\* exponent x, accumulator (y * a^x) mod N and the n+1 scratch cells at 0.
C1_HrsTower ==
    (op.f = "mod_exp_hrs" /\ phase # "build") =>
        /\ phase # "error"
        /\ circ.n = op.n + op.n + (op.n + 1)
        /\ phase = "done" => TowerResult

C1_Witness ==
    /\ op = Op("mod_exp_hrs", 3, 2, 5)
    /\ phase = "done"
    /\ Exponent(cells0) = 3
    /\ Accumulator(cells0) = 1
    /\ Accumulator(cells) = 3

(* ---- C2 ---- *)
BrgTowerOps ==
    {Op("mod_exp_brg", ceil_log2(N), a, N) : a \in 1..MaxN, N \in 2..MaxN}

OpsC2 == {o \in BrgTowerOps : Coprime(o.a, o.N)}

InitC2 == InitWith(OpsC2, "contract")

SpecBrgExp == InitC2 /\ [][Next]_vars

\* C2: mod_exp_brg(n, a, N), N >= 2, n = ceil(log2 N), a coprime to N,
\* started on exponent x, accumulator y < N and n+2 scratch cells at 0, ends
\* with exponent x, accumulator (y * a^x) mod N and the n+2 scratch cells at 0.
C2_BrgTower ==
    (op.f = "mod_exp_brg" /\ op.n = ceil_log2(op.N) /\ phase # "build") =>
        /\ phase # "error"
        /\ circ.n = op.n + op.n + (op.n + 2)
        /\ phase = "done" =>
             /\ TowerResult
             /\ Len(Scratch(cells)) = op.n + 2

C2_Witness ==
    /\ op = Op("mod_exp_brg", 3, 2, 5)
    /\ phase = "done"
    /\ Exponent(cells0) = 3
    /\ Accumulator(cells0) = 1
    /\ Accumulator(cells) = 3
    /\ Scratch(cells) = Zeros(5)

(* ---- C3 ---- *)
MontTowerOps ==
    {Op("mod_exp_montgomery", n, a, N) : n \in 1..MaxWidth, a \in 1..MaxN, N \in 2..MaxN}

OpsC3 == {o \in MontTowerOps : o.N < 2 ^ o.n /\ Coprime(o.a, o.N)}

InitC3 == InitWith(OpsC3, "contract")

SpecMontExp == InitC3 /\ [][Next]_vars

MontTowerHolds ==
    /\ phase # "error"
    /\ circ.n = op.n + op.n + (2 * op.n + 1)
    /\ phase = "done" =>
         /\ TowerResult
         /\ Len(Scratch(cells)) = 2 * op.n + 1

\* C3 as stated: mod_exp_montgomery(n, a, N) for every modulus 2 <= N < 2^n
\* and every a coprime to N is constructed and leaves exponent x, accumulator
\* (y * a^x) mod N and the 2n+1 scratch cells at 0.
C3_AnyModulus ==
    (op.f = "mod_exp_montgomery" /\ phase # "build") => MontTowerHolds

\* C3, amended: the same for every ODD modulus 3 <= N < 2^n (an even modulus
\* has no inverse modulo 2^(n+1) and the construction raises).
C3_MontTower ==
    (op.f = "mod_exp_montgomery" /\ op.N % 2 = 1 /\ phase # "build") => MontTowerHolds

C3_Witness ==
    /\ op = Op("mod_exp_montgomery", 3, 3, 7)
    /\ phase = "done"
    /\ Exponent(cells0) = 5
    /\ Accumulator(cells0) = 2
    /\ Accumulator(cells) = (2 * 243) % 7
    /\ Scratch(cells) = Zeros(7)

(* ---- C4 ---- *)
OpsC4 ==
    {o \in {Op("towers_side_by_side", ceil_log2(N), a, N) : a \in 1..MaxN, N \in 2..MaxN} :
        Coprime(o.a, o.N)}

InitC4 == InitWith(OpsC4, "contract")

SpecCross == InitC4 /\ [][Next]_vars

\* the cells of the k-th tower (1 Beauregard, 2 HRS, 3 Montgomery) in s
TowerCells(s, k) ==
    LET wb == TowerWidth("mod_exp_brg", op.n, op.N)
        wh == TowerWidth("mod_exp_hrs", op.n, op.N)
    IN  CASE k = 1 -> SubSeq(s, 1, wb)
          [] k = 2 -> SubSeq(s, wb + 1, wb + wh)
          [] k = 3 -> SubSeq(s, wb + wh + 1, Len(s))

\* the accumulator of the k-th tower: the n cells after its exponent
TowerAcc(s, k) == SubSeq(TowerCells(s, k), op.n + 1, 2 * op.n)

TowersAgree ==
    /\ phase # "error"
    /\ phase = "done" =>
         /\ AllC(cells)
         /\ \A k \in 1..3 : Val(TowerAcc(cells0, k)) = 1
         /\ TowerAcc(cells, 1) = TowerAcc(cells, 2)
         /\ TowerAcc(cells, 2) = TowerAcc(cells, 3)

\* C4 as stated: for n = ceil(log2 N) and a coprime to N the three towers are
\* all constructed and, started on the same exponent and accumulator 1, end
\* with the same accumulator.
C4_AnyModulus ==
    (op.f = "towers_side_by_side" /\ phase # "build") => TowersAgree

\* C4, amended: the same for every odd modulus N >= 5 (mod_exp_montgomery
\* raises for an even modulus, mod_exp_hrs for a width n <= 2).
C4_CrossBackend ==
    (op.f = "towers_side_by_side" /\ op.N % 2 = 1 /\ op.N >= 5 /\ phase # "build") =>
        TowersAgree

C4_Witness ==
    /\ op = Op("towers_side_by_side", 3, 2, 5)
    /\ phase = "done"
    /\ \A k \in 1..3 : Val(SubSeq(TowerCells(cells0, k), 1, 3)) = 3
    /\ \A k \in 1..3 : Val(TowerAcc(cells, k)) = 3

(* ---- C10 ---- *)
OpsC10 == OpsC1 \cup OpsC2 \cup {o \in OpsC3 : o.N % 2 = 1}

InitC10 == InitWith(OpsC10, "one")

SpecTowers == InitC10 /\ [][Next]_vars

\* the controlled in-place multiplier by c of the backend of tower f
TowerMultiplier(f, n, c, N) ==
    CASE f = "mod_exp_brg" -> mult_mod_N_c(c, N, None)
      [] f = "mod_exp_hrs" -> c_mult_hrs(n, c, N)
      [] f = "mod_exp_montgomery" -> mult_montgomery_c(n, c, N)

\* the gates the k-th statement (k = 1..n) of the tower has to contribute:
\* the multiplier by a^(2^(k-1)) mod N, controlled by exponent cell k-1, on
\* all the cells after the exponent, in their order
TowerStatement(k) ==
    Remap(TowerMultiplier(op.f, op.n, pow_mod(op.a, 2 ^ (k - 1), op.N), op.N).g,
          <<k>> \o Wires(op.n + 1, circ.n))

\* C10: a tower is exactly n controlled in-place multipliers, appended in the
\* order i = 0..n-1, the i-th controlled by exponent cell i, built for
\* a^(2^i) mod N and wired to the same cells after the exponent; at every
\* point of the construction the circuit is the first multipliers, in order,
\* and the circuit returned holds nothing else.
C10_TowerOrder ==
    (op.f \in Towers /\ phase # "error") =>
        /\ Len(marks) <= op.n
        /\ circ.m = marks
        /\ phase # "build" => Len(marks) = op.n
        /\ Len(circ.g) = (IF marks = <<>> THEN 0 ELSE marks[Len(marks)])
        /\ \A k \in 1..Len(marks) :
             SubSeq(circ.g, (IF k = 1 THEN 0 ELSE marks[k - 1]) + 1, marks[k])
                 = TowerStatement(k)

C10_Witness ==
    /\ op = Op("mod_exp_hrs", 3, 2, 5)
    /\ phase = "build"
    /\ Len(marks) = 2
    /\ circ.g[marks[1] + 1].q[1] = 2
    /\ circ.g[1].q[1] = 1

(* ---- the modular adders ---- *)
\* the cells of an adder: its controls, its n-cell register, what follows
Controls(s) == SubSeq(s, 1, NumCtrl(op))

Register(s) == SubSeq(s, NumCtrl(op) + 1, NumCtrl(op) + op.n)

ControlsSet(s) == \A j \in 1..NumCtrl(op) : s[j] = 1

\* the last cell: aux of phi_add_mod_N(_cc), msb of (c)c_carry_add_mod_hrs
LastCell(s) == s[Len(s)]

\* the n-1 borrowed cells g of (c)c_carry_add_mod_hrs
Borrowed(s) == SubSeq(s, NumCtrl(op) + op.n + 1, NumCtrl(op) + 2 * op.n - 1)

(* ---- C5, C9 ---- *)
BrgAdders == {"phi_add_mod_N", "phi_add_mod_N_cc"}

BrgAddOps ==
    {o \in {Op(f, n, y, N) : f \in BrgAdders, n \in 2..(MaxWidth + 1), y \in 0..MaxN, N \in 1..MaxN} :
        o.N <= 2 ^ (o.n - 1) /\ o.a < o.N}

InitBrgAdd == InitWith(BrgAddOps, "any")

SpecBrgAdd == InitBrgAdd /\ [][Next]_vars

\* C5: phi_add_mod_N(n, y, N), and phi_add_mod_N_cc(n, y, N) with both
\* controls at 1, N <= 2^(n-1), y < N: started on |phi(a)>, a < N, and the
\* ancilla at 0, the register ends as |phi((a + y) mod N)> and the ancilla at 0.
C5_BrgModAdd ==
    (op.f \in BrgAdders /\ phase # "build") =>
        /\ phase # "error"
        /\ circ.n = NumCtrl(op) + op.n + 1
        /\ (phase = "done" /\ ControlsSet(cells0) /\ LastCell(cells0) = 0) =>
             \A a \in 0..(op.N - 1) :
                 Register(cells0) = Phi(a, op.n) =>
                     /\ Register(cells) = Phi((a + op.a) % op.N, op.n)
                     /\ LastCell(cells) = 0
                     /\ Controls(cells) = Controls(cells0)

C5_Witness ==
    /\ op = Op("phi_add_mod_N_cc", 4, 5, 7)
    /\ phase = "done"
    /\ Controls(cells0) = <<1, 1>>
    /\ Register(cells0) = Phi(4, 4)
    /\ Register(cells) = Phi(2, 4)
    /\ LastCell(cells) = 0

\* the values v for which a gated phi_add_mod_N_cc has to leave |phi(v)>|0>
GatedKeeps(vs) ==
    (op.f = "phi_add_mod_N_cc" /\ phase = "done" /\ ~ControlsSet(cells0)
        /\ LastCell(cells0) = 0) =>
        \A v \in vs : Register(cells0) = Phi(v, op.n) => cells = cells0

\* C9 as stated: phi_add_mod_N_cc(n, y, N) with a control at 0 and the
\* ancilla at 0 leaves the register at |phi(v)> and the ancilla at 0 for
\* every v in [0, 2^n).
C9_AnyValue == GatedKeeps(0..(2 ^ op.n - 1))

\* C9, amended: the same for N <= 2^(n-1), y < N and every v in [0, N) (on
\* v >= N the unconditional subtraction of N is not undone).
C9_BrgGating == GatedKeeps(0..(op.N - 1))

C9_Witness ==
    /\ op = Op("phi_add_mod_N_cc", 4, 5, 7)
    /\ phase = "done"
    /\ Controls(cells0) = <<0, 1>>
    /\ Register(cells0) = Phi(6, 4)
    /\ cells = cells0

(* ---- C6, C7 ---- *)
HrsAdders == {"c_carry_add_mod_hrs", "cc_carry_add_mod_hrs"}

HrsAddOps ==
    {o \in {Op(f, n, a, N) : f \in HrsAdders, n \in 3..MaxWidth, a \in 0..MaxN, N \in 1..MaxN} :
        o.N <= 2 ^ o.n /\ o.a < o.N}

InitHrsAdd == InitWith(HrsAddOps, "contract")

SpecHrsAdd == InitHrsAdd /\ [][Next]_vars

\* C6: c_carry_add_mod_hrs(n, a, N) with its control at 1, and
\* cc_carry_add_mod_hrs(n, a, N) with both controls at 1, n >= 3, N <= 2^n,
\* a < N: started on b < N and the sign ancilla at 0, the register ends as
\* (b + a) mod N and the sign ancilla at 0.
C6_HrsModAdd ==
    (op.f \in HrsAdders /\ phase # "build") =>
        /\ phase # "error"
        /\ (phase = "done" /\ ControlsSet(cells0)
               /\ Val(Register(cells0)) < op.N /\ LastCell(cells0) = 0) =>
             /\ AllC(cells)
             /\ Val(Register(cells)) = (Val(Register(cells0)) + op.a) % op.N
             /\ LastCell(cells) = 0

C6_Witness ==
    /\ op = Op("c_carry_add_mod_hrs", 3, 5, 7)
    /\ phase = "done"
    /\ Controls(cells0) = <<1>>
    /\ Val(Register(cells0)) = 4
    /\ Val(Register(cells)) = 2
    /\ LastCell(cells) = 0

\* C7: (c)c_carry_add_mod_hrs on width n >= 3 has n-1 borrowed cells and 1
\* sign ancilla and no other scratch, and for every control setting, every
\* b < N and every content of the borrowed cells, each borrowed cell holds
\* its initial value when the adder completes.
C7_BorrowedRestored ==
    (op.f \in HrsAdders /\ phase # "build") =>
        /\ phase # "error"
        /\ circ.n = NumCtrl(op) + op.n + (op.n - 1) + 1
        /\ (phase = "done" /\ Val(Register(cells0)) < op.N /\ LastCell(cells0) = 0) =>
             /\ Len(Borrowed(cells)) = op.n - 1
             /\ Borrowed(cells) = Borrowed(cells0)

C7_Witness ==
    /\ op = Op("cc_carry_add_mod_hrs", 3, 5, 7)
    /\ phase = "done"
    /\ Controls(cells0) = <<1, 1>>
    /\ Val(Register(cells0)) = 4
    /\ Borrowed(cells0) = <<1, 0>>
    /\ Borrowed(cells) = <<1, 0>>
    /\ Val(Register(cells)) = 2

(* ---- C8 ---- *)
\* a modulus that needs the width: 2^(n-1) < N
NeedsWidth(o) == o.N > 2 ^ (o.n - 1)

\* the controlled gates on a width and a constant, the incrementer, and for
\* the moduli that need the width the modular adders, the multipliers and
\* the towers of base 2
HrsGateOps ==
    UNION {{Op(f, n, c, 0) : f \in {"c_carry_gate", "cc_carry_gate", "c_comp", "cc_comp",
                                    "c_adder_hrs2"},
                             c \in 0..(2 ^ n - 1)} : n \in 2..MaxWidth}
    \cup {Op("cinc", n, 0, 0) : n \in 2..MaxWidth}
    \cup {o \in HrsAddOps : NeedsWidth(o)}
    \cup {Op("c_mult_hrs", o.n, o.a, o.N) : o \in {t \in OpsC1 : NeedsWidth(t)}}
    \cup {o \in OpsC1 : NeedsWidth(o) /\ o.a = 2}

InitHrsGate == InitWith(HrsGateOps, "gated")

SpecHrsGate == InitHrsGate /\ [][Next]_vars

\* the operations whose last cell is the sign ancilla of the modular adder
HasSignAncilla(o) == o.f \in HrsAdders \cup {"c_mult_hrs", "mod_exp_hrs"}

Gated(s) == IF op.f \in Towers THEN Exponent(s) = 0 ELSE ~ControlsSet(s)

\* C8 as stated: with the control at 0 (two controls: not both 1; a tower:
\* exponent 0) every cell of the operation holds its initial value after the
\* operation, for every initial content of all the cells, ancilla included.
C8_AnyContent ==
    (phase # "build") =>
        /\ phase # "error"
        /\ (phase = "done" /\ Gated(cells0)) => cells = cells0

\* C8, amended: the same for every initial content of the data, borrowed and
\* result cells with the sign ancilla of the modular adder (the last cell of
\* the adders, of c_mult_hrs and of mod_exp_hrs) initially 0.
C8_HrsGating ==
    (phase # "build") =>
        /\ phase # "error"
        /\ (phase = "done" /\ Gated(cells0)
               /\ (HasSignAncilla(op) => LastCell(cells0) = 0)) => cells = cells0

C8_Witness ==
    /\ op = Op("c_mult_hrs", 3, 2, 5)
    /\ phase = "done"
    /\ cells0 = <<0, 1, 1, 0, 1, 0, 1, 0>>
    /\ cells = cells0

(* ---- C11 ---- *)
\* every tower call with an exponent register of 1..MaxWidth cells
AllTowerOps ==
    {o \in {Op(f, n, a, N) : f \in Towers, n \in 1..MaxWidth, a \in 1..2, N \in 2..MaxN} :
        Coprime(o.a, o.N)}

InitWidths == InitWith(AllTowerOps, "one") \/ InitWith(BrgAddOps, "contract")

SpecWidths == InitWidths /\ [][Next]_vars

\* the cells the docstring of a tower declares after the n exponent cells
DeclaredWidth(f, n) ==
    CASE f = "mod_exp_brg" -> n + (n + 2)
      [] f = "mod_exp_hrs" -> n + (n + 1)
      [] f = "mod_exp_montgomery" -> n + (2 * n + 1)

\* C11: a tower that is returned has n exponent cells followed by 2n+2
\* (mod_exp_brg), 2n+1 (mod_exp_hrs), 3n+1 (mod_exp_montgomery) cells, for
\* every n >= 1 and every N, and a Beauregard modular adder has its controls,
\* its n-cell register and exactly 1 ancilla cell.
C11_DeclaredWidths ==
    (phase \in {"ready", "run", "done"}) =>
        /\ op.f \in Towers => circ.n = op.n + DeclaredWidth(op.f, op.n)
        /\ op.f \in BrgAdders => circ.n = NumCtrl(op) + op.n + 1

(* ---- C12, C13 ---- *)
\* the multipliers and the towers for every constant, coprime to N or not
MultOps ==
    {Op("c_mult_hrs", n, a, N) : n \in 3..MaxWidth, a \in 0..MaxN, N \in 2..MaxN}
    \cup {Op("mult_mod_N_c", None, a, N) : a \in 0..MaxN, N \in 2..MaxN}
    \cup {Op("mult_montgomery_c", n, a, N) : n \in 1..MaxWidth, a \in 0..MaxN, N \in 2..MaxN}

AnyBaseTowerOps ==
    {Op(f, n, a, N) : f \in Towers, n \in 1..MaxWidth, a \in 0..MaxN, N \in 2..MaxN}

InitCoprime == InitWith(MultOps, "contract") \/ InitWith(AnyBaseTowerOps, "one")

SpecCoprime == InitCoprime /\ [][Next]_vars

C13_FailFast ==
    (op.f \in Multipliers /\ ~Coprime(op.a, op.N) /\ phase = "error") =>
        /\ marks = <<>>
        /\ circ.g = <<>>

(* ---- C14 ---- *)
\* constants and moduli that do not fit a width of n cells
TooBig(n) == {2 ^ n + 1, 2 ^ n + 3}

\* the width a call provides for its constant or modulus, and the value
\* that has to fit it
GivenWidth(o) == MultWidth(o)

FitValue(o) == IF o.f \in {"c_comp", "c_adder_hrs2"} THEN o.a ELSE o.N

\* calls whose width is too small for the constant (comparator, adder) or for
\* the modulus (modular adder, multipliers, tower); the multiplicative
\* constant is 2, coprime to the odd moduli
NarrowOps ==
    UNION {{Op(f, n, c, 0) : f \in {"c_comp", "c_adder_hrs2"}, c \in TooBig(n)} :
              n \in 2..MaxWidth}
    \cup UNION {{Op(f, n, 2, N) : f \in {"c_carry_add_mod_hrs", "c_mult_hrs", "mod_exp_hrs"},
                                  N \in TooBig(n)} : n \in 3..MaxWidth}
    \cup UNION {{Op(f, n, 2, N) : f \in {"mult_mod_N_c", "mult_montgomery_c"},
                                  N \in TooBig(n)} : n \in 1..MaxWidth}

InitNarrow == InitWith(NarrowOps, "contract")

SpecNarrow == InitNarrow /\ [][Next]_vars

\* C14: a comparator, adder, modular adder, multiplier or tower called with a
\* width below ceil(log2) of its constant or modulus ends in an error and
\* returns no circuit.
C14_NarrowRejected ==
    (ceil_log2(FitValue(op)) > GivenWidth(op) /\ phase # "build") => phase = "error"

(* ---- C15 ---- *)
\* the adders in Fourier space on widths -1..MaxWidth, factor 1 and -1, and
\* phi_addition_controlled_ignorebits with ignorebits 0..MaxWidth+1
FourierOps ==
    {Op(f, n, b, factor) :
        f \in {"phi_add_builtin", "phi_addition_controlled", "phi_addition_cc"},
        n \in (0 - 1)..MaxWidth, b \in 0..MaxN, factor \in {1, 0 - 1}}
    \cup {Op("phi_addition_controlled_ignorebits", n, b, ignorebits) :
             n \in 0..MaxWidth, b \in 0..MaxN, ignorebits \in 0..(MaxWidth + 1)}

InitFourier == InitWith(FourierOps, "any")

SpecFourier == InitFourier /\ [][Next]_vars

\* the configurations C15 declares invalid
InvalidFourier(o) ==
    IF o.f = "phi_addition_controlled_ignorebits" THEN o.N >= o.n ELSE o.n < 1

\* C15: phi_addition_controlled_ignorebits with ignorebits >= n (ignorebits =
\* n included), and phi_add_builtin, phi_addition_controlled and
\* phi_addition_cc with n < 1 (n = 0 included), end in an error and return no
\* circuit.
C15_InvalidRejected ==
    (op.f \in FourierAdders /\ InvalidFourier(op) /\ phase # "build") => phase = "error"

(* ---- C16 ---- *)
RoundTrip(o) == Op("round_trip", 0, o, 0)

\* the operations of reversible classical gates, started on every content of
\* every cell
ClassicalOps ==
    UNION {{Op(f, n, c, 0) : f \in {"carry_gate", "c_carry_gate", "cc_carry_gate",
                                    "c_adder_hrs2"},
                             c \in 0..(2 ^ n - 1)} : n \in 2..MaxWidth}
    \cup {Op(f, n, value, 0) : f \in {"c_comp", "cc_comp"}, n \in 2..MaxWidth, value \in 0..MaxN}
    \cup {Op("cinc", n, 0, 0) : n \in 1..MaxWidth}
    \cup {Op("adder_ttk", n, 0, overflow) : n \in 1..MaxWidth, overflow \in 0..1}
    \cup {o \in HrsAddOps : NeedsWidth(o)}
    \cup {Op(f, o.n, o.a, o.N) : f \in {"c_mult_hrs_partial", "c_mult_hrs"},
                                o \in {t \in OpsC1 : NeedsWidth(t) /\ t.a = 2}}

\* the operations with Fourier-space adders and the towers, started on the
\* inputs of their contract
ContractOps ==
    BrgAddOps
    \cup {Op(f, o.n, o.a, o.N) : f \in {"mult_mod_N_partial_c", "mult_mod_N_c"}, o \in OpsC2}
    \cup {Op(f, o.n, o.a, o.N) : f \in {"mult_montgomery_partial_c", "mult_montgomery_c"},
                                o \in {t \in OpsC3 : t.N % 2 = 1}}
    \cup {o \in OpsC10 : o.a = 2}

InitRoundTrip ==
    \/ InitWith({RoundTrip(o) : o \in ClassicalOps}, "all")
    \/ InitWith({RoundTrip(o) : o \in ContractOps}, "contract")

SpecRoundTrip == InitRoundTrip /\ [][Next]_vars

CarryGates == {"carry_gate", "c_carry_gate", "cc_carry_gate"}

CarryOps ==
    UNION {{Op(f, n, c, 0) : f \in CarryGates, c \in 0..(2 ^ n - 1)} : n \in 2..(MaxWidth + 1)}

InitCarry == InitWith(CarryOps, "all")

SpecCarry == InitCarry /\ [][Next]_vars

\* a[n-1] ends as bit n-1 of a + c and every other cell as it was
CarryComputed ==
    cells = [cells0 EXCEPT ![NumCtrl(op) + op.n] =
                ((Val(Register(cells0)) + op.a) \div (2 ^ (op.n - 1))) % 2]

\* C17: carry_gate(n, c), c_carry_gate(n, c) with its control at 1 and
\* cc_carry_gate(n, c) with both controls at 1, for every n >= 2 (n = 2
\* included), every n-bit c and every content of a and g: a[n-1] ends as bit
\* n-1 of (a + c) mod 2^n and every other cell holds its initial value.
C17_CarryGate ==
    (op.f \in CarryGates /\ phase # "build") =>
        /\ phase # "error"
        /\ (phase = "done" /\ ControlsSet(cells0)) => CarryComputed

(* ---- C18 ---- *)
Comparators == {"c_comp", "cc_comp"}

CompOps ==
    UNION {{Op(f, n, value, 0) : f \in Comparators, value \in 0..(2 ^ n)} : n \in 2..MaxWidth}

InitComp == InitWith(CompOps, "all")

SpecComp == InitComp /\ [][Next]_vars

\* C18: c_comp(n, value) with its control at 1 and cc_comp(n, value) with
\* both controls at 1, n >= 2, value in [0, 2^n]: for every register value r,
\* every content of the n-1 borrowed cells and the result cell at 0, the
\* result cell ends as 1 iff r < value and every other cell is unchanged.
C18_Comparator ==
    (op.f \in Comparators /\ phase # "build") =>
        /\ phase # "error"
        /\ circ.n = NumCtrl(op) + op.n + (op.n - 1) + 1
        /\ (phase = "done" /\ ControlsSet(cells0) /\ LastCell(cells0) = 0) =>
             cells = [cells0 EXCEPT ![Len(cells0)] =
                         IF Val(Register(cells0)) < op.a THEN 1 ELSE 0]

C18_Witness ==
    /\ op = Op("c_comp", 3, 5, 0)
    /\ phase = "done"
    /\ cells0 = <<1, 0, 0, 1, 1, 0, 0>>
    /\ cells = <<1, 0, 0, 1, 1, 0, 1>>

(* ---- C19 ---- *)
IncOps == {Op("cinc", n, 0, 0) : n \in 1..(MaxWidth + 1)}

InitInc == InitWith(IncOps, "all")

SpecInc == InitInc /\ [][Next]_vars

\* C19: cinc(n), n >= 1, on every register value x, every control value and
\* every content of the n+1 borrowed cells ends with the register at
\* (x + 1) mod 2^n if the control is 1 and at x if it is 0, the control and
\* the n+1 borrowed cells as they were.
C19_Incrementer ==
    (op.f = "cinc" /\ phase # "build") =>
        /\ phase # "error"
        /\ circ.n = 1 + op.n + (op.n + 1)
        /\ phase = "done" =>
             cells = <<cells0[1]>>
                     \o Bits((Val(Register(cells0)) + cells0[1]) % (2 ^ op.n), op.n)
                     \o SubSeq(cells0, op.n + 2, 2 * op.n + 2)

C19_Witness ==
    /\ op = Op("cinc", 3, 0, 0)
    /\ phase = "done"
    /\ cells0 = <<1, 1, 1, 1, 0, 1, 1, 0>>
    /\ cells = <<1, 0, 0, 0, 0, 1, 1, 0>>

(* ---- C20 ---- *)
AdderOps ==
    UNION {{Op("c_adder_hrs2", n, c, 0) : c \in (0 - 2 ^ n)..(2 ^ n - 1)} :
              n \in 1..(MaxWidth + 1)}

InitAdder == InitWith(AdderOps, "all")

SpecAdder == InitAdder /\ [][Next]_vars

\* the top level of c_divide_and_conquer_adder for n >= 3: the gates of the
\* incrementer, of the flips of the high half and of the carry computation
IncGates(n) == Len(Call("cinc", <<n - (n + 1) \div 2>>).g)

FlipGates(n) == n - (n + 1) \div 2

CarryGateCount(n, c) ==
    Len(Call("c_carry_gate", <<(n + 1) \div 2 + 1,
                              [k \in 1..((n + 1) \div 2) |-> bin_rev_bit(c, n + 1, k - 1)] \o <<0>>>>).g)

\* the toggle (the first borrowed cell) once the first k gates have run
ToggleAfter(k) == RunGates(circ.g, 1, k, cells0)[op.n + 2]

\* the second carry computation flips the toggle exactly when the first did
SameFlip ==
    LET i == IncGates(op.n)
        f == FlipGates(op.n)
        g == CarryGateCount(op.n, op.a)
    IN  (ToggleAfter(i + f) # ToggleAfter(i + f + g))
            <=> (ToggleAfter(2 * i + f + g) # ToggleAfter(2 * i + f + 2 * g))

HrsPartialOps ==
    {o \in {Op("c_mult_hrs_partial", n, a, N) : n \in 3..MaxWidth, a \in 1..MaxN, N \in 2..MaxN} :
        o.N < 2 ^ o.n}

SpecHrsPartial == InitWith(HrsPartialOps, "any") /\ [][Next]_vars

\* C21: c_mult_hrs_partial(n, a, N) on control 1, x in [0, 2^n), result and
\* ancilla 0: in step i no gate targets the multiplicand cell x_i, which is
\* a control, and the multiplicand cells that are targeted are exactly the
\* other n-1; after step i the multiplicand holds x, the ancilla is 0 and
\* the result register holds (sum over j <= i of x_j * ((a * 2^j) mod N))
\* mod N, after the last step (a * x) mod N.
C21_MultiplierSteps ==
    (op.f = "c_mult_hrs_partial" /\ phase \in {"run", "done"} /\ pos >= 1) =>
        LET n == op.n
            step == SubSeq(circ.g, (IF pos = 1 THEN 0 ELSE marks[pos - 1]) + 1, marks[pos])
            targets == {g.q[Len(g.q)] : g \in Range(step)}
            used == UNION {Range(g.q) : g \in Range(step)}
            top == 2..(n + 1)
            x == SubSeq(cells0, 2, n + 1)
            RECURSIVE partial(_)
            partial(i) == IF i = 0 THEN 0
                          ELSE (partial(i - 1) + x[i] * ((op.a * 2 ^ (i - 1)) % op.N)) % op.N
        IN  /\ Len(marks) = n
            /\ (1 + pos) \in used
            /\ targets \cap top = top \ {1 + pos}
            /\ cells0[1] = 1 =>
                 /\ SubSeq(cells, 1, n + 1) = SubSeq(cells0, 1, n + 1)
                 /\ cells[2 * n + 2] = 0
                 /\ Val(SubSeq(cells, n + 2, 2 * n + 1)) = partial(pos)
                 /\ phase = "done" =>
                      Val(SubSeq(cells, n + 2, 2 * n + 1)) = (op.a * Val(x)) % op.N

C21_Witness ==
    /\ op = Op("c_mult_hrs_partial", 3, 3, 7)
    /\ phase = "run"
    /\ pos = 2
    /\ cells0 = <<1, 1, 1, 1, 0, 0, 0, 0>>
    /\ cells = <<1, 1, 1, 1, 0, 1, 0, 0>>

(* ---- C22 ---- *)
BrgMultOps ==
    {o \in {Op("mult_mod_N_c", None, a, N) : a \in 1..MaxN, N \in 2..MaxN} :
        o.a < o.N /\ Coprime(o.a, o.N)}

SpecBrgMult == InitWith(BrgMultOps, "contract") /\ [][Next]_vars

\* the cells once the first k gates of circ have run
CellsAfter(k) == RunGates(circ.g, 1, k, cells0)

\* the accumulator b holds the Fourier representation of a value in [0, N)
\* and the adder ancilla is 0
AccumulatorReduced(s) ==
    LET size == ceil_log2(op.N)
        v == FourierVal(SubSeq(s, size + 2, 2 * size + 2))
    IN  /\ 0 <= v
        /\ v < op.N
        /\ v < 2 ^ size
        /\ s[2 * size + 3] = 0

\* C22: in mult_mod_N_c(a, N) on x in [0, N), b = 0, ancilla 0: after each
\* doubly controlled modular addition of mult_mod_N_partial_c, and of its
\* inverse in the second half, b holds a value in [0, N), so b[size] is 0,
\* and the ancilla is 0; at the swaps b[size] and the ancilla are 0, and the
\* swap of the low size cells loses nothing: x ends as a*x mod N, b as 0.
C22_AccumulatorBound ==
    (op.f = "mult_mod_N_c" /\ op.n = None /\ phase \in {"run", "done"}) =>
        LET size == ceil_log2(op.N)
            P == Call("mult_mod_N_partial_c", <<op.a, op.N, size, size + 1>>)
            Q == Call("mult_mod_N_partial_c", <<mod_inverse(op.a, op.N), op.N, size, size + 1>>)
            base == Len(P.g) + size
        IN  /\ Len(circ.g) = base + Len(Q.g)
            /\ Len(P.m) = size + 2
            /\ pos = 0 =>
                 /\ \A j \in 1..size : AccumulatorReduced(CellsAfter(P.m[j + 1]))
                 /\ \A j \in 1..size :
                        AccumulatorReduced(CellsAfter(base + Len(Q.g) - Q.m[j]))
            /\ (pos >= 1 /\ pos <= size + 1) =>
                 /\ cells[2 * size + 2] = 0
                 /\ cells[2 * size + 3] = 0
            /\ phase = "done" =>
                 cells = <<cells0[1]>>
                         \o Bits(IF cells0[1] = 1
                                 THEN (op.a * Val(SubSeq(cells0, 2, size + 1))) % op.N
                                 ELSE Val(SubSeq(cells0, 2, size + 1)), size)
                         \o Zeros(size + 2)

C22_Witness ==
    /\ op = Op("mult_mod_N_c", None, 3, 7)
    /\ phase = "run"
    /\ pos = 1
    /\ cells0 = <<1, 0, 1, 1, 0, 0, 0, 0, 0>>
    /\ cells = <<1, 0, 1, 1, 0, 0, 1, 0, 0>>
    /\ FourierVal(SubSeq(CellsAfter(Call("mult_mod_N_partial_c", <<3, 7, 3, 4>>).m[3]), 5, 8)) = 6

(* ---- C23 ---- *)
\* op.a is the multiplier constant in Montgomery form, op.N the modulus p
MontPartialOps ==
    {o \in {Op("mult_montgomery_partial_c", n, a, p) :
               n \in 1..MaxWidth, a \in 0..MaxN, p \in 1..MaxN} :
        o.N % 2 = 1 /\ o.N < 2 ^ o.n /\ o.a < o.N}

SpecMontPartial == InitWith(MontPartialOps, "any") /\ [][Next]_vars

\* C23: mult_montgomery_partial_c(n, (y * 2^n) mod p, p), p odd, p < 2^n,
\* y in [0, p), on control 1, x in [0, 2^n) and the big register at 0: the
\* input register still holds x, cells n..2n-1 of the big register hold
\* (x * y) mod p, the n low helper cells and the sign cell 2n are 0.
C23_MontgomeryPartial ==
    (op.f = "mult_montgomery_partial_c" /\ phase # "build") =>
        /\ phase # "error"
        /\ circ.n = 1 + op.n + (2 * op.n + 1)
        /\ (phase = "done" /\ cells0[1] = 1) =>
             LET n == op.n
                 x == Val(SubSeq(cells0, 2, n + 1))
             IN  \E y \in 0..(op.N - 1) :
                    /\ op.a = (y * 2 ^ n) % op.N
                    /\ cells = <<1>> \o Bits(x, n) \o Zeros(n)
                                   \o Bits((x * y) % op.N, n) \o <<0>>

C23_Witness ==
    /\ op = Op("mult_montgomery_partial_c", 3, 5, 7)
    /\ phase = "done"
    /\ cells0 = <<1, 0, 1, 1, 0, 0, 0, 0, 0, 0, 0>>
    /\ cells = <<1, 0, 1, 1, 0, 0, 0, 0, 1, 0, 0>>

(* ---- C24 ---- *)
\* op.a is the constant b, op.N the factor
BuiltinAddOps ==
    {Op("phi_add_builtin", n, b, factor) :
        n \in 1..(MaxWidth + 1), b \in (0 - MaxN)..MaxN, factor \in {-1, 1}}

SpecBuiltinAdd == InitWith(BuiltinAddOps, "any") /\ [][Next]_vars

\* C24: phi_add_builtin(n, b, factor) is n phase rotations, the k-th on
\* cell k alone with angle factor * b * pi / 2^k, and nothing else; on the
\* Fourier representation of x in [0, 2^n) it leaves that of
\* (x + factor * b) mod 2^n, for every integer b and factor +1 or -1.
C24_BuiltinAdder ==
    (op.f = "phi_add_builtin" /\ phase # "build") =>
        /\ phase # "error"
        /\ circ.n = op.n
        /\ Len(circ.g) = op.n
        /\ \A k \in 1..op.n :
              circ.g[k] = Gate("p", <<k>>, op.N * op.a * (HalfTurn \div 2 ^ (k - 1)))
        /\ phase = "done" =>
             \E x \in 0..(2 ^ op.n - 1) :
                /\ cells0 = Phi(x, op.n)
                /\ cells = Phi((x + op.N * op.a + 2 ^ op.n * MaxN) % (2 ^ op.n), op.n)

C24_Witness ==
    /\ op = Op("phi_add_builtin", 3, 0 - 5, -1)
    /\ phase = "done"
    /\ cells0 = Phi(6, 3)
    /\ cells = Phi(3, 3)
    /\ cells # cells0

(* ---- C25 ---- *)
\* ccp(theta) for the angles phi_addition_cc passes; op.a is theta
CcpOps ==
    {Op("ccp", 1, factor * get_angle(k, b), 0) :
        factor \in {-1, 1}, k \in 0..MaxWidth, b \in 0..MaxN}

\* the target in a Fourier state, which shows the phase of target = 1
\* relative to target = 0, and every basis state of the three cells
SpecCcp == (InitWith(CcpOps, "any") \/ InitWith(CcpOps, "all")) /\ [][Next]_vars

\* C25: ccp(theta) is three singly controlled phase rotations and two
\* controlled flips on its own 3 cells; the phase it leaves on target = 1
\* is theta when both controls are 1 and 0 otherwise; the controls end as
\* they began, and a basis state is left as it is.
C25_CcpDecomposition ==
    (op.f = "ccp" /\ phase # "build") =>
        /\ phase # "error"
        /\ circ.n = 3
        /\ Len(circ.g) = 5
        /\ Cardinality({i \in 1..5 : circ.g[i].k = "cp" /\ Len(circ.g[i].q) = 2}) = 3
        /\ Cardinality({i \in 1..5 : circ.g[i].k = "cx" /\ Len(circ.g[i].q) = 2}) = 2
        /\ \A i \in 1..5 : Range(circ.g[i].q) \subseteq 1..3
        /\ phase = "done" =>
             /\ SubSeq(cells, 1, 2) = SubSeq(cells0, 1, 2)
             /\ IsC(cells0[3]) => cells[3] = cells0[3]
             /\ IsF(cells0[3]) =>
                  cells[3] = F(Ang(cells0[3])
                               + (IF cells0[1] = 1 /\ cells0[2] = 1 THEN op.a ELSE 0))

C25_Witness ==
    /\ op = Op("ccp", 1, 0 - get_angle(2, 3), 0)
    /\ phase = "done"
    /\ cells0 = <<1, 1, F(HalfTurn)>>
    /\ cells = <<1, 1, F(HalfTurn - get_angle(2, 3))>>
    /\ cells # cells0

(* ---- C26 ---- *)
\* the gates of the adder of width n for the constant c, from the two
\* halves it is split into
SplitGateCount(n, c) ==
    LET nlow == (n + 1) \div 2
    IN  2 * IncGates(n) + 2 * FlipGates(n) + 2 * CarryGateCount(n, c)
        + Len(Call("c_adder_hrs2", <<nlow, c % (2 ^ nlow)>>).g)
        + Len(Call("c_adder_hrs2", <<n - nlow, (c \div 2 ^ nlow) % (2 ^ (n - nlow))>>).g)

\* C26: for every width n >= 1 the construction of the adder terminates
\* with a circuit; the calls made for a width m >= 3 have widths ceil(m/2)
\* and m - ceil(m/2) >= 1, both in [1, m-1]; no call has width 0; the
\* nesting of the calls is at most ceil(log2 m) deep; the circuit of width
\* n >= 3 is the six top-level operations and the two halves.
C26_RecursionTerminates ==
    (op.f = "c_adder_hrs2" /\ phase = "ready") =>
        /\ circ.err = NoErr
        /\ op.n >= 3 => Len(circ.g) = SplitGateCount(op.n, op.a % (2 ^ op.n))
        /\ \A m \in 1..(2 ^ (MaxWidth + 2)) :
              /\ m >= 3 =>
                   /\ 2 * SplitWidths(m)[1] \in {m, m + 1}
                   /\ SplitWidths(m)[1] + SplitWidths(m)[2] = m
                   /\ SplitWidths(m)[1] \in 1..(m - 1)
                   /\ SplitWidths(m)[2] \in 1..(m - 1)
              /\ CallWidths(m) \subseteq 1..(m - 1)
              /\ RecursionDepth(m) <= ceil_log2(m)

C26_Witness ==
    /\ op = Op("c_adder_hrs2", MaxWidth + 1, 5, 0)
    /\ phase = "ready"
    /\ CallWidths(op.n) # {}
    /\ RecursionDepth(op.n) >= 1
    /\ CallWidths(9) = {5, 4, 3, 2, 1}
    /\ RecursionDepth(9) = 3

(* ---- C27 ---- *)
\* C27: in c_carry_add_mod_hrs / cc_carry_add_mod_hrs with a, b in [0, N)
\* and the sign ancilla at 0, ctrl the AND of the controls: before the
\* first adder the ancilla is ctrl AND (b < N - a), before the second it is
\* ctrl AND (b >= N - a), at most one of the two adders changes the
\* register, before the last comparator the register is (b + a) mod N when
\* ctrl = 1, and the last comparator flips the ancilla exactly when it is
\* 1, leaving 0.
C27_AdderSteps ==
    (/\ op.f \in HrsAdders
     /\ phase \in {"run", "done"}
     /\ LastCell(cells0) = 0
     /\ Val(Register(cells0)) < op.N) =>
        LET ctrl == ControlsSet(cells0)
            b == Val(Register(cells0))
            r == Val(Register(cells))
            msb == LastCell(cells)
            below == ctrl /\ b < op.N - op.a
            wraps == ctrl /\ b >= op.N - op.a
        IN  /\ Len(marks) = 5
            /\ pos = 1 => msb = (IF below THEN 1 ELSE 0)
            /\ pos = 2 => r = (IF below THEN b + op.a ELSE b)
            /\ pos = 3 => /\ msb = (IF wraps THEN 1 ELSE 0)
                          /\ r = (IF below THEN b + op.a ELSE b)
            /\ pos = 4 =>
                 /\ r = (IF ctrl THEN (b + op.a) % op.N ELSE b)
                 /\ msb = (IF wraps THEN 1 ELSE 0)
                 /\ ~(/\ Register(CellsAfter(marks[2])) # Register(cells0)
                      /\ Register(cells) # Register(CellsAfter(marks[2])))
            /\ pos = 5 =>
                 /\ msb = 0
                 /\ r = (IF ctrl THEN (b + op.a) % op.N ELSE b)
                 /\ LastCell(CellsAfter(marks[4])) = (IF wraps THEN 1 ELSE 0)

C27_Witness ==
    /\ op = Op("cc_carry_add_mod_hrs", 3, 4, 7)
    /\ phase = "run"
    /\ pos = 3
    /\ Controls(cells0) = <<1, 1>>
    /\ Val(Register(cells0)) = 5
    /\ LastCell(cells0) = 0
    /\ Val(Register(cells)) = 5
    /\ LastCell(cells) = 1

(* ---- C28 ---- *)
\* the wires a gate may change: the last one, for a controlled swap the
\* last two
Targets(g) == IF g.k = "cswap" THEN {g.q[2], g.q[3]} ELSE {g.q[Len(g.q)]}

\* the cells after gates lo..hi of gs applied to s, or <<>> when after one
\* of these gates the exponent register differs from that of cells0
RECURSIVE ExponentKept(_, _, _, _)
ExponentKept(gs, lo, hi, s) ==
    IF lo > hi THEN s
    ELSE IF lo = hi
    THEN LET t == ApplyGate(gs[lo], s)
         IN  IF SubSeq(t, 1, op.n) = SubSeq(cells0, 1, op.n) THEN t ELSE <<>>
    ELSE LET mid == (lo + hi) \div 2
             left == ExponentKept(gs, lo, mid, s)
         IN  IF left = <<>> THEN left ELSE ExponentKept(gs, mid + 1, hi, left)

SpecHrsExponent == InitWith({o \in OpsC1 : o.a = 2}, "contract") /\ [][Next]_vars

\* C28: no gate of mod_exp_hrs has an exponent cell as its target, every
\* exponent cell is a control of some gate, and the exponent register
\* holds its initial value after every single gate of the tower.
C28_ExponentReadOnly ==
    (op.f = "mod_exp_hrs" /\ phase \in {"ready", "done"}) =>
        /\ phase = "ready" =>
             /\ \A i \in DOMAIN circ.g : Targets(circ.g[i]) \cap (1..op.n) = {}
             /\ \A e \in 1..op.n : \E i \in DOMAIN circ.g : circ.g[i].q[1] = e
        /\ phase = "done" =>
             ExponentKept(circ.g, 1, Len(circ.g), cells0) = cells

C28_Witness ==
    /\ op = Op("mod_exp_hrs", 3, 2, 5)
    /\ phase = "done"
    /\ Exponent(cells0) = 5
    /\ Accumulator(cells0) = 3
    /\ Accumulator(cells) = 1
    /\ ExponentKept(circ.g, 1, Len(circ.g), cells0) # <<>>

(* ---- C29 ---- *)
MontFamily == {"mult_montgomery_partial_c", "mult_montgomery_c", "mod_exp_montgomery"}

\* the Montgomery operations for every modulus, odd or even
MontAnyModulusOps ==
    {Op(f, n, a, p) : f \in MontFamily, n \in 1..MaxWidth, a \in 0..MaxN, p \in 2..MaxN}

SpecMontModulus ==
    /\ \/ InitWith({o \in MontAnyModulusOps : o.f # "mod_exp_montgomery"}, "contract")
       \/ InitWith({o \in MontAnyModulusOps : o.f = "mod_exp_montgomery"}, "one")
    /\ [][Next]_vars

HrsAnyWidthOps ==
    {Op(f, n, a, N) : f \in HrsAdders, n \in (0 - 1)..MaxWidth, a \in 0..2, N \in 3..MaxN}
    \cup {Op(f, n, a, N) : f \in {"c_mult_hrs", "mod_exp_hrs"},
                           n \in 1..MaxWidth, a \in 1..2, N \in 3..MaxN}

SpecHrsWidth ==
    /\ \/ InitWith({o \in HrsAnyWidthOps : o.f # "mod_exp_hrs"}, "contract")
       \/ InitWith({o \in HrsAnyWidthOps : o.f = "mod_exp_hrs"}, "one")
    /\ [][Next]_vars

====
